---- MODULE Spec2Model ----
(***************************************************************************)
(* Weighted A* path finder of the moveobjecttocoords script command:       *)
(* node pool, frontier (binary min-heap), explored set (open addressing),  *)
(* neighbour expansion, path reconstruction and the calling command.       *)
(***************************************************************************)
EXTENDS Integers, Sequences, FiniteSets, TLC

(***************************************************************************)
(* Bounds of the model.                                                    *)
(***************************************************************************)
\* width and height of the walled grids explored by Spec
GridW == 3
GridH == 3
\* width and height of the open grids explored by SpecOpen
OpenW == 5
OpenH == 5
\* node budgets 0..SmallBudget and the one large budget BigBudget
SmallBudget == 4
BigBudget == 40
\* node budgets of the open grids: 0..OpenBudget and BigBudget
OpenBudget == 8
\* at most MaxWalls impassable tiles in a walled grid
MaxWalls == 2
\* requested speed 0..MaxSpeed and requested facing 0..MaxFacing
MaxSpeed == 5
MaxFacing == 9

(***************************************************************************)
(* Program constants.                                                      *)
(***************************************************************************)
DIR_NONE == 0
DIR_SOUTH == 1
DIR_NORTH == 2
DIR_WEST == 3
DIR_EAST == 4
DIR_SOUTHWEST == 5
DIR_SOUTHEAST == 6
DIR_NORTHWEST == 7
DIR_NORTHEAST == 8
CARDINAL_DIRECTION_COUNT == 5
MAP_OFFSET == 7
PATH_FINDER_MAX_ELEVATION == 15
COLLISION_NONE == 0
COLLISION_IMPASSABLE == 2
COLLISION_ELEVATION_MISMATCH == 3
COLLISION_LEDGE_JUMP == 6
NULL == 0

Cardinals == {DIR_SOUTH, DIR_NORTH, DIR_WEST, DIR_EAST}

\* struct Coords16 gDirectionToVectors[]
gDirectionToVectors(d) ==
    CASE d = DIR_SOUTH -> [x |-> 0, y |-> 1]
      [] d = DIR_NORTH -> [x |-> 0, y |-> -1]
      [] d = DIR_WEST -> [x |-> -1, y |-> 0]
      [] d = DIR_EAST -> [x |-> 1, y |-> 0]
      [] d = DIR_SOUTHWEST -> [x |-> -1, y |-> 1]
      [] d = DIR_SOUTHEAST -> [x |-> 1, y |-> 1]
      [] d = DIR_NORTHWEST -> [x |-> -1, y |-> -1]
      [] d = DIR_NORTHEAST -> [x |-> 1, y |-> -1]
      [] OTHER -> [x |-> 0, y |-> 0]

(***************************************************************************)
(* Movement action codes.  A code is base + direction - 1 within a family  *)
(* of four cardinal actions; the face family starts at 0.                  *)
(***************************************************************************)
MOVEMENT_ACTION_FACE_DOWN == 0
MOVEMENT_ACTION_WALK_SLOW_DOWN == 8
MOVEMENT_ACTION_WALK_NORMAL_DOWN == 16
MOVEMENT_ACTION_WALK_FAST_DOWN == 24
MOVEMENT_ACTION_WALK_FASTER_DOWN == 32
MOVEMENT_ACTION_JUMP_2_DOWN == 40
MOVEMENT_ACTION_EMOTE_X == 60
MOVEMENT_ACTION_GENERATED_BEGIN == 61
MOVEMENT_ACTION_GENERATED_END == 62
MOVEMENT_ACTION_STEP_END == 63
MOVEMENT_ACTION_NONE == 64
\* content of a byte of Alloc'd storage that was never written
UNINIT == 255

sWalkSlowMovement(d) ==
    IF d = DIR_NONE THEN MOVEMENT_ACTION_NONE ELSE MOVEMENT_ACTION_WALK_SLOW_DOWN + d - 1
\* mutant: the normal table holds the actions of the slow one
sWalkNormalMovement_Slow(d) ==
    IF d = DIR_NONE THEN MOVEMENT_ACTION_NONE ELSE MOVEMENT_ACTION_WALK_SLOW_DOWN + d - 1
sWalkNormalMovement(d) ==
    IF d = DIR_NONE THEN MOVEMENT_ACTION_NONE ELSE MOVEMENT_ACTION_WALK_NORMAL_DOWN + d - 1
sWalkFastMovement(d) ==
    IF d = DIR_NONE THEN MOVEMENT_ACTION_NONE ELSE MOVEMENT_ACTION_WALK_FAST_DOWN + d - 1
\* the diagonal entries of the faster table are the fast diagonal actions
sWalkFasterMovement(d) ==
    IF d = DIR_NONE THEN MOVEMENT_ACTION_NONE
    ELSE IF d > DIR_EAST THEN MOVEMENT_ACTION_WALK_FAST_DOWN + d - 1
    ELSE MOVEMENT_ACTION_WALK_FASTER_DOWN + d - 1
sJump2Movement(d) ==
    IF d = DIR_NONE THEN MOVEMENT_ACTION_NONE ELSE MOVEMENT_ACTION_JUMP_2_DOWN + d - 1

sMovementsBySpeed(speed, d) ==
    CASE speed = 0 -> sWalkSlowMovement(d)
      [] speed = 1 -> sWalkNormalMovement(d)
      [] speed = 2 -> sWalkFastMovement(d)
      [] OTHER -> sWalkFasterMovement(d)

sPathFinderFailScript == <<MOVEMENT_ACTION_EMOTE_X, MOVEMENT_ACTION_STEP_END>>

\* mutant: every row of the table is the row of the start node
sNeighbors_All(d) == <<DIR_SOUTH, DIR_NORTH, DIR_WEST, DIR_EAST>>

sNeighbors(d) ==
    CASE d = DIR_NONE -> <<DIR_SOUTH, DIR_NORTH, DIR_WEST, DIR_EAST>>
      [] d = DIR_SOUTH -> <<DIR_NORTH, DIR_WEST, DIR_EAST, DIR_NONE>>
      [] d = DIR_NORTH -> <<DIR_SOUTH, DIR_WEST, DIR_EAST, DIR_NONE>>
      [] d = DIR_WEST -> <<DIR_SOUTH, DIR_NORTH, DIR_EAST, DIR_NONE>>
      [] OTHER -> <<DIR_SOUTH, DIR_NORTH, DIR_WEST, DIR_NONE>>

\* mutant: a node other than the start node is expanded in two directions
sNeighborCount_Two(d) == IF d = DIR_NONE THEN 4 ELSE 2

sNeighborCount(d) == IF d = DIR_NONE THEN 4 ELSE 3

\* mutant: every step is free of cost
sPrecomputedDistance_Zero(d) == 0

sPrecomputedDistance(d) ==
    IF d = DIR_NONE THEN 0 ELSE IF d <= DIR_EAST THEN 1 ELSE 2

(***************************************************************************)
(* Unsigned 32-bit arithmetic.  A u32 is a pair <<high half, low half>> of *)
(* 16-bit halves; products are formed from 8-bit limbs.                    *)
(***************************************************************************)
RECURSIVE BitXor(_, _)
BitXor(a, b) ==
    IF a = 0 THEN b
    ELSE IF b = 0 THEN a
    ELSE (((a % 2) + (b % 2)) % 2) + 2 * BitXor(a \div 2, b \div 2)

RECURSIVE BitAnd(_, _)
BitAnd(a, b) ==
    IF a = 0 \/ b = 0 THEN 0
    ELSE ((a % 2) * (b % 2)) + 2 * BitAnd(a \div 2, b \div 2)

RECURSIVE BitOr(_, _)
BitOr(a, b) ==
    IF a = 0 THEN b
    ELSE IF b = 0 THEN a
    ELSE (IF (a % 2) + (b % 2) > 0 THEN 1 ELSE 0) + 2 * BitOr(a \div 2, b \div 2)

MulLo16(a, b) ==
    LET a0 == a % 256
        a1 == a \div 256
        b0 == b % 256
        b1 == b \div 256
    IN (a0 * b0 + ((a0 * b1 + a1 * b0) % 256) * 256) % 65536

MulHi16(a, b) ==
    LET a0 == a % 256
        a1 == a \div 256
        b0 == b % 256
        b1 == b \div 256
        mid == a0 * b1 + a1 * b0
    IN ((a0 * b0 + (mid % 256) * 256) \div 65536) + (mid \div 256) + a1 * b1

Mul32(a, b) ==
    <<(MulHi16(a[2], b[2]) + MulLo16(a[1], b[2]) + MulLo16(a[2], b[1])) % 65536,
      MulLo16(a[2], b[2])>>

Xor32(a, b) == <<BitXor(a[1], b[1]), BitXor(a[2], b[2])>>

\* a >> 16 and a >> 13
Shr16(a) == <<0, a[1]>>
Shr13(a) == <<a[1] \div 8192, (a[1] % 8192) * 8 + (a[2] \div 8192)>>

\* u32 NextPowerOfTwo(u32 num), for num < 2^30
NextPowerOfTwo(num) ==
    IF num = 0 THEN 1
    ELSE LET n0 == num - 1
             n1 == BitOr(n0, n0 \div 2)
             n2 == BitOr(n1, n1 \div 4)
             n3 == BitOr(n2, n2 \div 16)
             n4 == BitOr(n3, n3 \div 256)
             n5 == BitOr(n4, n4 \div 65536)
         IN n5 + 1

(***************************************************************************)
(* State.                                                                  *)
(***************************************************************************)
VARIABLES
    map,            \* the terrain read through the map grid functions
    objectEvent,    \* the moved object: currentCoords, currentElevation, directionOverwrite
    args,           \* arguments of MoveObjectEventToCoords
    ctx,            \* struct PathFinderContext of the running invocation
    pc,             \* position inside MoveObjectEventToCoords
    result,         \* value returned by FindPathForObjectEvent
    movementScript, \* the variable movementScript of MoveObjectEventToCoords
    started,        \* scripts handed to ScriptMovement_StartObjectMovementScript
    sounds,         \* sound effects played with PlaySE
    searches,       \* number of calls of FindPathForObjectEvent
    refused,        \* number of PathNode_Create calls that returned NULL
    pops,           \* number of PathQueue_Pop calls that returned a node
    heap            \* the allocations of CreatePathFinderContext that Alloc serves

vars == <<map, objectEvent, args, ctx, pc, result, movementScript, started, sounds, searches, refused,
          pops, heap>>

(***************************************************************************)
(* Terrain.  A tile is <<x, y>> in grid coordinates that include           *)
(* MAP_OFFSET; map.w and map.h are the playable width and height.          *)
(***************************************************************************)
MB_NORMAL == 0
MB_ROCK_STAIRS == 5
SE_PIN == 1

TilesOf(w, h) == {<<x, y>> : x \in MAP_OFFSET..(MAP_OFFSET + w - 1), y \in MAP_OFFSET..(MAP_OFFSET + h - 1)}

InMap(x, y) == <<x, y>> \in DOMAIN map.behavior

\* u32 MapGridGetMetatileBehaviorAt(int x, int y): MB_NORMAL, a ledge of
\* direction d (the value d), or MB_ROCK_STAIRS
MapGridGetMetatileBehaviorAt(x, y) ==
    IF InMap(x, y) THEN map.behavior[<<x, y>>] ELSE MB_NORMAL

\* u8 MapGridGetElevationAt(int x, int y)
MapGridGetElevationAt(x, y) ==
    IF InMap(x, y) THEN map.elevation[<<x, y>>] ELSE 0

\* u8 GetLedgeJumpDirectionWithBehavior(u8 direction, u8 behavior)
GetLedgeJumpDirectionWithBehavior(direction, behavior) ==
    IF direction \in Cardinals /\ behavior = direction THEN direction ELSE DIR_NONE

IsElevationMismatchAt(elevation, x, y) ==
    LET mapElevation == MapGridGetElevationAt(x, y)
    IN IF elevation = 0 THEN FALSE
       ELSE IF mapElevation = 0 \/ mapElevation = 15 THEN FALSE
       ELSE mapElevation # elevation

\* u8 GetCollisionWithBehaviorsAtCoords(objectEvent, x, y, elevation, direction,
\*                                      currentBehavior, nextBehavior)
GetCollisionWithBehaviorsAtCoords(x, y, elevation, direction, currentBehavior, nextBehavior) ==
    IF ~InMap(x, y) \/ <<x, y>> \in map.walls THEN COLLISION_IMPASSABLE
    ELSE IF IsElevationMismatchAt(elevation, x, y) THEN COLLISION_ELEVATION_MISMATCH
    ELSE COLLISION_NONE

\* bool8 ObjectMovingOnRockStairsWithBehaviors(objectEvent, direction,
\*                                             currentBehavior, nextBehavior)
ObjectMovingOnRockStairsWithBehaviors(direction, currentBehavior, nextBehavior) ==
    currentBehavior = MB_ROCK_STAIRS \/ nextBehavior = MB_ROCK_STAIRS

\* the build option SLOW_MOVEMENT_ON_STAIRS
SLOW_MOVEMENT_ON_STAIRS == map.slowStairs

(***************************************************************************)
(* Nodes.  A node pointer is 1 + the index of the node in ctx.nodeBuffer;  *)
(* NULL is 0.                                                              *)
(***************************************************************************)
Node(c, p) == c.nodeBuffer[p]

PathFinder_Abs(value) ==
    LET mask == IF value < 0 THEN -1 ELSE 0
        flipped == IF mask = -1 THEN -value - 1 ELSE value
    IN flipped - mask

ManhattanDistance(x1, y1, x2, y2) ==
    PathFinder_Abs(x2 - x1) + PathFinder_Abs(y2 - y1)

\* mutant: the direction travelled is kept as the direction of origin
OppositeDirection_Same(direction) == IF direction \in Cardinals THEN direction ELSE DIR_NONE

OppositeDirection(direction) ==
    CASE direction = DIR_SOUTH -> DIR_NORTH
      [] direction = DIR_NORTH -> DIR_SOUTH
      [] direction = DIR_WEST -> DIR_EAST
      [] direction = DIR_EAST -> DIR_WEST
      [] OTHER -> DIR_NONE

\* mutant: the elevation of the map is taken as it is
PathNode_GetElevation_Raw(c, parent, x, y) == MapGridGetElevationAt(x, y)

\* PathNode_GetElevation(parent, x, y), parent a node pointer of c
PathNode_GetElevation(c, parent, x, y) ==
    LET elevation == MapGridGetElevationAt(x, y)
    IN IF elevation = PATH_FINDER_MAX_ELEVATION /\ parent # NULL
       THEN Node(c, parent).elevation
       ELSE elevation

\* mutant: the weight of the heuristic is 4
CostH_Heavy(distance) == 4 * distance

\* costH for PATH_FINDER_WEIGHT == 1.5
CostH(distance) == distance + (distance \div 2)

\* the pool slot PathNode_Create writes: fields it does not assign keep the
\* slot's content, UNINIT in storage never written
SlotContent(c) ==
    IF c.nodeCount + 1 <= Len(c.nodeBuffer)
    THEN c.nodeBuffer[c.nodeCount + 1]
    ELSE [parent |-> NULL, costG |-> 0, costF |-> 0, x |-> 0, y |-> 0, elevation |-> 0,
          movementAction |-> UNINIT, originDirection |-> 0]

\* mutant: the pool refuses one node too late
PathNode_Refuses_Late(c) == c.maxNodes < c.nodeCount

PathNode_Refuses(c) == c.maxNodes = c.nodeCount

\* mutant: the node is written over the last node that was counted
PathNode_Create_Previous(c, x, y, direction, costG) ==
    IF PathNode_Refuses(c) THEN [node |-> NULL, ctx |-> c]
    ELSE LET slot == IF c.nodeCount = 0 THEN 1 ELSE c.nodeCount
             node == [c.nodeBuffer[slot] EXCEPT
                        !.x = x,
                        !.y = y,
                        !.elevation = PathNode_GetElevation(c, c.currentNode, x, y),
                        !.costG = costG,
                        !.costF = costG + CostH(ManhattanDistance(x, y, c.target.x, c.target.y)),
                        !.parent = c.currentNode,
                        !.originDirection = OppositeDirection(direction)]
         IN IF c.nodeCount = 0
            THEN [node |-> 1, ctx |-> [c EXCEPT !.nodeBuffer =
                                          IF Len(c.nodeBuffer) = 0
                                          THEN <<[SlotContent(c) EXCEPT
                                                    !.x = x, !.y = y,
                                                    !.elevation = PathNode_GetElevation(c, c.currentNode, x, y),
                                                    !.costG = costG,
                                                    !.costF = costG + CostH(ManhattanDistance(x, y, c.target.x, c.target.y)),
                                                    !.parent = c.currentNode,
                                                    !.originDirection = OppositeDirection(direction)]>>
                                          ELSE [c.nodeBuffer EXCEPT ![1] = node]]]
            ELSE [node |-> slot, ctx |-> [c EXCEPT !.nodeBuffer = [c.nodeBuffer EXCEPT ![slot] = node]]]

\* PathNode_Create: [node |-> pointer or NULL, ctx |-> context with the slot written]
PathNode_Create(c, x, y, direction, costG) ==
    IF PathNode_Refuses(c) THEN [node |-> NULL, ctx |-> c]
    ELSE LET distance == ManhattanDistance(x, y, c.target.x, c.target.y)
             costH == CostH(distance)
             node == [SlotContent(c) EXCEPT
                        !.x = x,
                        !.y = y,
                        !.elevation = PathNode_GetElevation(c, c.currentNode, x, y),
                        !.costG = costG,
                        !.costF = costG + costH,
                        !.parent = c.currentNode,
                        !.originDirection = OppositeDirection(direction)]
             buffer == IF c.nodeCount + 1 <= Len(c.nodeBuffer)
                       THEN [c.nodeBuffer EXCEPT ![c.nodeCount + 1] = node]
                       ELSE Append(c.nodeBuffer, node)
         IN [node |-> c.nodeCount + 1, ctx |-> [c EXCEPT !.nodeBuffer = buffer]]

\* mutant: the comparison is turned round
PathNode_HasLowerCost_Higher(c, node1, node2) == Node(c, node1).costF > Node(c, node2).costF

PathNode_HasLowerCost(c, node1, node2) == Node(c, node1).costF < Node(c, node2).costF

\* mutant: nodes are compared by their address
PathNode_Equal_Pointer(c, node1, node2) == node1 = node2

PathNode_Equal(c, node1, node2) ==
    /\ Node(c, node1).x = Node(c, node2).x
    /\ Node(c, node1).y = Node(c, node2).y
    /\ Node(c, node1).elevation = Node(c, node2).elevation

\* (u32)((u16)v) of an s16
AsU16(v) == v % 65536

HashOf(x, y, elevation) ==
    LET spatial == Xor32(Xor32(Mul32(<<0, AsU16(x)>>, <<1126, 62557>>),
                               Mul32(<<0, AsU16(y)>>, <<295, 16543>>)),
                         Mul32(<<0, elevation>>, <<1273, 65463>>))
        h1 == Xor32(spatial, Shr16(spatial))
        h2 == Mul32(h1, <<34283, 51819>>)
    IN Xor32(h2, Shr13(h2))

\* the hashes of the coordinates a search can produce: ledge jumps and forced
\* steps leave the grid by at most two tiles
HashMargin == 2
Largest(a, b) == IF a > b THEN a ELSE b
HashCoords == (MAP_OFFSET - HashMargin)..
              (MAP_OFFSET + Largest(Largest(GridW, GridH), Largest(OpenW, OpenH)) - 1 + HashMargin)
HashTable ==
    [x \in HashCoords |-> [y \in HashCoords |-> [e \in 0..PATH_FINDER_MAX_ELEVATION |-> HashOf(x, y, e)]]]

PathNode_Hash(c, node) == HashTable[Node(c, node).x][Node(c, node).y][Node(c, node).elevation]

(***************************************************************************)
(* Priority queue: c.nodeFrontier = [nodes, capacity, size], nodes the     *)
(* first size entries of the array, entry i of the array at nodes[i + 1].  *)
(***************************************************************************)
At(nodes, index) == nodes[index + 1]
Put(nodes, index, node) == [nodes EXCEPT ![index + 1] = node]

GetLeftChild(index) == 2 * index + 1
GetParent(index) == (index - 1) \div 2

\* mutant: the frontier is one entry short of the budget
PathQueue_Create_Short(capacity) == [nodes |-> <<>>, capacity |-> capacity - 1, size |-> 0]

PathQueue_Create(capacity) == [nodes |-> <<>>, capacity |-> capacity, size |-> 0]

RECURSIVE SiftUp(_, _, _, _)
SiftUp(c, nodes, index, temp) ==
    IF index = 0 THEN Put(nodes, index, temp)
    ELSE LET parent == GetParent(index)
         IN IF ~PathNode_HasLowerCost(c, temp, At(nodes, parent))
            THEN Put(nodes, index, temp)
            ELSE SiftUp(c, Put(nodes, index, At(nodes, parent)), parent, temp)

\* mutant: the element that is sifted up is read from the parent's place
PathQueue_HeapifyUp_Lost(c, nodes, index) ==
    IF index = 0 THEN nodes ELSE SiftUp(c, nodes, index, At(nodes, GetParent(index)))

PathQueue_HeapifyUp(c, nodes, index) == SiftUp(c, nodes, index, At(nodes, index))

RECURSIVE SiftDown(_, _, _, _, _)
SiftDown(c, nodes, size, index, temp) ==
    LET left == GetLeftChild(index)
        right == left + 1
        best == IF right < size /\ PathNode_HasLowerCost(c, At(nodes, right), At(nodes, left))
                THEN right ELSE left
    IN IF left >= size THEN Put(nodes, index, temp)
       ELSE IF ~PathNode_HasLowerCost(c, At(nodes, best), temp)
            THEN Put(nodes, index, temp)
            ELSE SiftDown(c, Put(nodes, index, At(nodes, best)), size, best, temp)

\* mutant: the element moved to the root stays there
PathQueue_HeapifyDown_Skipped(c, nodes, size, index) == nodes

PathQueue_HeapifyDown(c, nodes, size, index) == SiftDown(c, nodes, size, index, At(nodes, index))

\* PathQueue_Push: [ok, ctx]
PathQueue_Push(c, node) ==
    LET queue == c.nodeFrontier
    IN IF queue.size >= queue.capacity THEN [ok |-> FALSE, ctx |-> c]
       ELSE LET index == queue.size
                nodes == PathQueue_HeapifyUp(c, Append(queue.nodes, node), index)
            IN [ok |-> TRUE,
                ctx |-> [c EXCEPT !.nodeFrontier = [queue EXCEPT !.nodes = nodes, !.size = index + 1]]]

\* PathQueue_Pop: [ok, outNode, ctx]
PathQueue_Pop(c) ==
    LET queue == c.nodeFrontier
    IN IF queue.size = 0 THEN [ok |-> FALSE, outNode |-> NULL, ctx |-> c]
       ELSE LET size == queue.size - 1
                moved == Put(queue.nodes, 0, At(queue.nodes, size))
                nodes == IF size # 0
                         THEN PathQueue_HeapifyDown(c, SubSeq(moved, 1, size), size, 0)
                         ELSE <<>>
            IN [ok |-> TRUE, outNode |-> At(queue.nodes, 0),
                ctx |-> [c EXCEPT !.nodeFrontier = [queue EXCEPT !.nodes = nodes, !.size = size]]]

(***************************************************************************)
(* Set of explored nodes: c.exploredNodes = [nodes, capacity, mask, size], *)
(* nodes the zeroed array of capacity pointers.                            *)
(***************************************************************************)
\* mutant: the array is half as long
PathList_Create_Half(capacity) ==
    LET half == NextPowerOfTwo(capacity) \div 2
        cap == IF half = 0 THEN 1 ELSE half
    IN [nodes |-> [i \in 1..cap |-> NULL], capacity |-> cap, mask |-> cap - 1, size |-> 0]

PathList_Create(capacity) ==
    LET cap == NextPowerOfTwo(capacity)
    IN [nodes |-> [i \in 1..cap |-> NULL], capacity |-> cap, mask |-> cap - 1, size |-> 0]

\* PathNode_Hash(node) & list->mask
HomeSlot(c, node) == BitAnd(PathNode_Hash(c, node)[2], c.exploredNodes.mask)

RECURSIVE InsertProbe(_, _, _, _)
InsertProbe(c, node, index, i) ==
    LET list == c.exploredNodes
        current == At(list.nodes, index)
    IN IF i >= list.capacity THEN [inserted |-> FALSE, out |-> c.currentNode, ctx |-> c]
       ELSE IF current = NULL
            THEN [inserted |-> TRUE, out |-> node,
                  ctx |-> [c EXCEPT !.exploredNodes =
                             [list EXCEPT !.nodes = Put(list.nodes, index, node),
                                          !.size = list.size + 1]]]
       ELSE IF PathNode_Equal(c, current, node)
            THEN [inserted |-> FALSE, out |-> current, ctx |-> c]
       ELSE InsertProbe(c, node, BitAnd(index + 1, list.mask), i + 1)

\* PathList_TryInsert(list, node, &ctx->currentNode): [inserted, out, ctx]; out
\* is the value *out holds afterwards
PathList_TryInsert(c, node) == InsertProbe(c, node, HomeSlot(c, node), 0)

RECURSIVE HasProbe(_, _, _, _)
HasProbe(c, node, index, i) ==
    LET list == c.exploredNodes
        current == At(list.nodes, index)
    IN IF i >= list.capacity THEN FALSE
       ELSE IF current = NULL THEN FALSE
       ELSE IF PathNode_Equal(c, current, node) THEN TRUE
       ELSE HasProbe(c, node, BitAnd(index + 1, list.mask), i + 1)

PathList_HasNode(c, node) == HasProbe(c, node, HomeSlot(c, node), 0)

(***************************************************************************)
(* Search.                                                                 *)
(***************************************************************************)
\* mutant: only the column is compared
PathFinderTargetReached_OnlyX(c, node) == c.target.x = Node(c, node).x

PathFinderTargetReached(c, node) ==
    c.target.x = Node(c, node).x /\ c.target.y = Node(c, node).y

CheckForPathFinderCollision(c, x, y, direction, currentBehavior, nextBehavior) ==
    LET elevation == Node(c, c.currentNode).elevation
    IN IF GetLedgeJumpDirectionWithBehavior(direction, nextBehavior) # DIR_NONE
       THEN COLLISION_LEDGE_JUMP
       ELSE GetCollisionWithBehaviorsAtCoords(x, y, elevation, direction, currentBehavior, nextBehavior)

SetMovementAction(c, node, action) ==
    [c EXCEPT !.nodeBuffer = [c.nodeBuffer EXCEPT ![node] = [@ EXCEPT !.movementAction = action]]]

\* mutant: the pushed neighbour is not counted
PushNeighbor_Uncounted(c, neighbor) == PathQueue_Push(c, neighbor).ctx

\* the tail of TryCreateNeighbor: push the neighbour and count it
PushNeighbor(c, neighbor) ==
    LET pushed == PathQueue_Push(c, neighbor)
    IN IF pushed.ok
       THEN [pushed.ctx EXCEPT !.nodeCount = pushed.ctx.nodeCount + 1]
       ELSE pushed.ctx

\* mutant: the forced direction of the object is not looked at
StepDirection_Computed(direction) == direction

\* the direction of a free step: the forced direction of the object if it has one
StepDirection(direction) ==
    IF objectEvent.directionOverwrite # DIR_NONE
    THEN objectEvent.directionOverwrite
    ELSE direction

\* the speed of a free step
StepSpeed(c, direction, currentBehavior, nextBehavior) ==
    IF SLOW_MOVEMENT_ON_STAIRS /\ c.speed # 0
       /\ ObjectMovingOnRockStairsWithBehaviors(direction, currentBehavior, nextBehavior)
    THEN c.speed - 1
    ELSE c.speed

\* mutant: a ledge jump advances one tile
JumpLength_One == 2 - 1

\* number of tiles a ledge jump advances
JumpLength == 2

TryCreateNeighbor(c, direction) ==
    LET currentNode == Node(c, c.currentNode)
        neighborX == currentNode.x + gDirectionToVectors(direction).x
        neighborY == currentNode.y + gDirectionToVectors(direction).y
        nextBehavior == MapGridGetMetatileBehaviorAt(neighborX, neighborY)
        currentBehavior == MapGridGetMetatileBehaviorAt(currentNode.x, currentNode.y)
        collision == CheckForPathFinderCollision(c, neighborX, neighborY, direction,
                                                 currentBehavior, nextBehavior)
    IN IF collision = COLLISION_NONE
       THEN LET dir == StepDirection(direction)
                stepX == currentNode.x + gDirectionToVectors(dir).x
                stepY == currentNode.y + gDirectionToVectors(dir).y
                tentativeG == currentNode.costG + sPrecomputedDistance(dir)
                created == PathNode_Create(c, stepX, stepY, dir, tentativeG)
                speed == StepSpeed(c, dir, currentBehavior, nextBehavior)
            IN IF created.node = NULL THEN c
               ELSE IF PathList_HasNode(created.ctx, created.node) THEN created.ctx
               ELSE PushNeighbor(SetMovementAction(created.ctx, created.node,
                                                   sMovementsBySpeed(speed, dir)),
                                 created.node)
       ELSE IF collision = COLLISION_LEDGE_JUMP
       THEN LET jumpX == currentNode.x + gDirectionToVectors(direction).x * JumpLength
                jumpY == currentNode.y + gDirectionToVectors(direction).y * JumpLength
                tentativeG == currentNode.costG + sPrecomputedDistance(direction) * JumpLength
                created == PathNode_Create(c, jumpX, jumpY, direction, tentativeG)
            IN IF created.node = NULL THEN c
               ELSE IF PathList_HasNode(created.ctx, created.node) THEN created.ctx
               ELSE PushNeighbor(SetMovementAction(created.ctx, created.node,
                                                   sJump2Movement(direction)),
                                 created.node)
       ELSE c

\* TRUE when TryCreateNeighbor(c, direction) asks PathNode_Create for a node and gets NULL
NeighborRefused(c, direction) ==
    LET currentNode == Node(c, c.currentNode)
        neighborX == currentNode.x + gDirectionToVectors(direction).x
        neighborY == currentNode.y + gDirectionToVectors(direction).y
        collision == CheckForPathFinderCollision(c, neighborX, neighborY, direction,
                         MapGridGetMetatileBehaviorAt(currentNode.x, currentNode.y),
                         MapGridGetMetatileBehaviorAt(neighborX, neighborY))
    IN collision \in {COLLISION_NONE, COLLISION_LEDGE_JUMP} /\ PathNode_Refuses(c)

\* the loop
\*   for (i = 0; i < neighborCount; i++) TryCreateNeighbor(ctx, sNeighbors[direction][i]);
\* after its first i calls: [ctx, refused], refused the number of refused calls
RECURSIVE ExpandUpTo(_, _, _)
ExpandUpTo(c, direction, i) ==
    IF i = 0 THEN [ctx |-> c, refused |-> 0]
    ELSE LET before == ExpandUpTo(c, direction, i - 1)
         IN [ctx |-> TryCreateNeighbor(before.ctx, sNeighbors(direction)[i]),
             refused |-> before.refused
                         + (IF NeighborRefused(before.ctx, sNeighbors(direction)[i]) THEN 1 ELSE 0)]

\* mutant: a refused allocation drops what the frontier holds
ExpandNeighbors_Aborts(c) ==
    LET direction == Node(c, c.currentNode).originDirection
        expanded == ExpandUpTo(c, direction, sNeighborCount(direction))
    IN IF expanded.refused = 0 THEN expanded
       ELSE [ctx |-> [expanded.ctx EXCEPT !.nodeFrontier.nodes = <<>>, !.nodeFrontier.size = 0],
             refused |-> expanded.refused]

ExpandNeighbors(c) ==
    LET direction == Node(c, c.currentNode).originDirection
    IN ExpandUpTo(c, direction, sNeighborCount(direction))

(***************************************************************************)
(* Path reconstruction.  The value returned is a pointer into the          *)
(* allocated script: [buffer, offset].                                     *)
(***************************************************************************)
\* mutant: the start node is counted as a move
RECURSIVE CountMoves_Nodes(_, _)
CountMoves_Nodes(c, it) ==
    IF it = NULL THEN 0 ELSE 1 + CountMoves_Nodes(c, Node(c, it).parent)

RECURSIVE CountMoves(_, _)
CountMoves(c, it) ==
    IF it = NULL THEN 0
    ELSE (IF Node(c, it).parent # NULL THEN 1 ELSE 0) + CountMoves(c, Node(c, it).parent)

\* mutant: movementScript[index--] in place of movementScript[--index]
RECURSIVE FillMoves_PostDecrement(_, _, _, _)
FillMoves_PostDecrement(c, script, it, index) ==
    IF it = NULL THEN script
    ELSE IF Node(c, it).parent = NULL THEN script
    ELSE FillMoves_PostDecrement(c, Put(script, index, Node(c, it).movementAction),
                                 Node(c, it).parent, index - 1)

RECURSIVE FillMoves(_, _, _, _)
FillMoves(c, script, it, index) ==
    IF it = NULL THEN script
    ELSE IF Node(c, it).parent = NULL THEN script
    ELSE FillMoves(c, Put(script, index - 1, Node(c, it).movementAction),
                   Node(c, it).parent, index - 1)

\* the face action written for a facing direction (a u8)
FaceAction(facingDirection) == (MOVEMENT_ACTION_FACE_DOWN + facingDirection - 1) % 256

\* number of begin markers skipped by the returned pointer
SkippedMarkers == 1

ReconstructPath(c, targetNode, facingDirection) ==
    LET moves == CountMoves(c, targetNode)
        extraMoves == IF facingDirection = DIR_NONE THEN 2 ELSE 3
        alloc == [i \in 1..(moves + extraMoves) |-> UNINIT]
        begun == Put(alloc, 0, MOVEMENT_ACTION_GENERATED_BEGIN)
        filled == FillMoves(c, begun, targetNode, moves + 1)
        faced == IF facingDirection # DIR_NONE
                 THEN Put(filled, moves + 1, FaceAction(facingDirection))
                 ELSE filled
        index == IF facingDirection # DIR_NONE THEN moves + 2 ELSE moves + 1
    IN [buffer |-> Put(faced, index, MOVEMENT_ACTION_GENERATED_END), offset |-> SkippedMarkers]

\* the actions a script pointer designates
ScriptAt(script) == SubSeq(script.buffer, script.offset + 1, Len(script.buffer))

(***************************************************************************)
(* Context.                                                                *)
(***************************************************************************)
\* mutant: the speed wraps round the number of tables
ClampSpeed_Wrap(speed) == speed % 4

ClampSpeed(speed) == IF speed >= 4 THEN 4 - 1 ELSE speed

NormalFacing(facingDirection) ==
    IF facingDirection > DIR_EAST THEN facingDirection - DIR_EAST ELSE facingDirection

CreatePathFinderContext(targetX, targetY, facingDirection, speed, maxNodes) ==
    [start |-> [x |-> objectEvent.currentCoords.x, y |-> objectEvent.currentCoords.y],
     target |-> [x |-> targetX + MAP_OFFSET, y |-> targetY + MAP_OFFSET],
     facingDirection |-> NormalFacing(facingDirection),
     speed |-> ClampSpeed(speed),
     maxNodes |-> maxNodes,
     nodeBuffer |-> <<>>,
     currentNode |-> NULL,
     nodeCount |-> 0,
     nodeFrontier |-> PathQueue_Create(maxNodes),
     exploredNodes |-> PathList_Create(maxNodes)]

\* mutant: nothing is released
DestroyPathFinderContext_Kept(c) == c

DestroyPathFinderContext(c) ==
    [c EXCEPT !.nodeBuffer = <<>>,
              !.exploredNodes = [nodes |-> <<>>, capacity |-> 0, mask |-> @.mask, size |-> 0],
              !.nodeFrontier = [nodes |-> <<>>, capacity |-> 0, size |-> 0],
              !.nodeCount = 0]

\* the context variable before CreatePathFinderContext assigns it
NoContext ==
    [start |-> [x |-> 0, y |-> 0], target |-> [x |-> 0, y |-> 0], facingDirection |-> 0,
     speed |-> 0, maxNodes |-> 0, nodeBuffer |-> <<>>, currentNode |-> NULL, nodeCount |-> 0,
     nodeFrontier |-> [nodes |-> <<>>, capacity |-> 0, size |-> 0],
     exploredNodes |-> [nodes |-> <<>>, capacity |-> 0, mask |-> 0, size |-> 0]]

\* mutant: the start node is pushed and not counted
SeedStart_Uncounted(c) ==
    LET created == PathNode_Create(c, c.start.x, c.start.y, DIR_NONE, 0)
        seeded == [created.ctx EXCEPT
                     !.nodeBuffer = [@ EXCEPT ![created.node] =
                                       [@ EXCEPT !.elevation = objectEvent.currentElevation]]]
    IN PathQueue_Push(seeded, created.node).ctx

\* the start node: created, its elevation set from the object, counted
SeedStart(c) ==
    LET created == PathNode_Create(c, c.start.x, c.start.y, DIR_NONE, 0)
        seeded == [created.ctx EXCEPT
                     !.nodeBuffer = [@ EXCEPT ![created.node] =
                                       [@ EXCEPT !.elevation = objectEvent.currentElevation]],
                     !.nodeCount = @ + 1]
    IN PathQueue_Push(seeded, created.node).ctx

(***************************************************************************)
(* MoveObjectEventToCoords, one action per step.  pc is "call" before the  *)
(* context is created, "find" before FindPathForObjectEvent, "loop" at the *)
(* head of its while loop, "returned" when it has returned, "start" when   *)
(* the context is destroyed, "done" when the script was started.           *)
(***************************************************************************)
\* the three allocations of CreatePathFinderContext, by the field they fill
Allocations == {"nodeBuffer", "nodeFrontier", "exploredNodes"}

\* a NULL script pointer
NullScript == [buffer |-> <<>>, offset |-> 0]

\* the pointer sPathFinderFailScript
FailScriptPointer == [buffer |-> sPathFinderFailScript, offset |-> 0]

CreateContext ==
    /\ pc = "call"
    /\ ctx' = CreatePathFinderContext(args.targetX, args.targetY, args.facingDirection,
                                      args.speed, args.maxNodes)
    /\ pc' = "find"
    /\ UNCHANGED <<map, objectEvent, args, result, movementScript, started, sounds, searches, refused, pops, heap>>

\* mutant: no early return
ReturnsEarly_Never(maxNodes) == FALSE

\* if (maxNodes == 0) return NULL;
ReturnsEarly(maxNodes) == maxNodes = 0

\* FindPathForObjectEvent with maxNodes == 0
FindNoBudget ==
    /\ pc = "find"
    /\ ReturnsEarly(args.maxNodes)
    /\ searches' = searches + 1
    /\ result' = NullScript
    /\ movementScript' = NullScript
    /\ pc' = "returned"
    /\ UNCHANGED <<map, objectEvent, args, ctx, started, sounds, refused, pops, heap>>

\* FindPathForObjectEvent up to the while loop, on storage that was obtained
FindSeed ==
    /\ pc = "find"
    /\ ~ReturnsEarly(args.maxNodes)
    /\ heap = Allocations
    /\ searches' = searches + 1
    /\ ctx' = SeedStart(ctx)
    /\ pc' = "loop"
    /\ UNCHANGED <<map, objectEvent, args, result, movementScript, started, sounds, refused, pops, heap>>

\* a script read from storage the invocation does not own
GarbageScript == [buffer |-> <<UNINIT>>, offset |-> 0]

\* FindPathForObjectEvent up to the while loop when Alloc returned NULL for
\* some field of the context: no field is tested, so PathNode_Create hands out
\* &nodeBuffer[0], the start node is counted and PathQueue_Push stores it and
\* counts it, through the NULL pointers; what follows is undefined
FindSeedUnserved ==
    /\ pc = "find"
    /\ ~ReturnsEarly(args.maxNodes)
    /\ heap # Allocations
    /\ searches' = searches + 1
    /\ ctx' = [ctx EXCEPT !.nodeCount = 1, !.nodeFrontier.size = 1]
    /\ pc' = "undefined"
    /\ UNCHANGED <<map, objectEvent, args, result, movementScript, started, sounds, refused, pops, heap>>

\* the while loop on storage that was not obtained reads and writes through
\* NULL: it never returns (no step from "undefined"), or it returns NULL, or
\* it returns a pointer to a script made of what it read
UndefinedOutcome ==
    /\ pc = "undefined"
    /\ \E script \in {NullScript, GarbageScript} :
           /\ result' = script
           /\ movementScript' = script
    /\ pc' = "returned"
    /\ UNCHANGED <<map, objectEvent, args, ctx, started, sounds, searches, refused, pops, heap>>

\* the loop condition fails: return NULL
LoopExit ==
    /\ pc = "loop"
    /\ ctx.nodeFrontier.size = 0
    /\ result' = NullScript
    /\ movementScript' = NullScript
    /\ pc' = "returned"
    /\ UNCHANGED <<map, objectEvent, args, ctx, started, sounds, searches, refused, pops, heap>>

\* mutant: a popped node that is explored already is taken all the same
Settle_Reopens(c) ==
    LET popped == PathQueue_Pop(c)
        tried == PathList_TryInsert([popped.ctx EXCEPT !.currentNode = NULL], popped.outNode)
    IN [inserted |-> TRUE, ctx |-> [tried.ctx EXCEPT !.currentNode = popped.outNode]]

\* the popped node with ctx->currentNode = NULL and PathList_TryInsert done:
\* [inserted, ctx], ctx->currentNode the value TryInsert left in it
Settle(c) ==
    LET popped == PathQueue_Pop(c)
        tried == PathList_TryInsert([popped.ctx EXCEPT !.currentNode = NULL], popped.outNode)
    IN [inserted |-> tried.inserted, ctx |-> [tried.ctx EXCEPT !.currentNode = tried.out]]

\* the popped node is already explored: continue
LoopDiscard ==
    /\ pc = "loop"
    /\ ctx.nodeFrontier.size # 0
    /\ LET settled == Settle(ctx)
       IN /\ ~settled.inserted
          /\ ctx' = settled.ctx
    /\ pops' = pops + 1
    /\ UNCHANGED <<map, objectEvent, args, pc, result, movementScript, started, sounds, searches, refused, heap>>

\* the popped node is at the target: return the reconstructed path
LoopGoal ==
    /\ pc = "loop"
    /\ ctx.nodeFrontier.size # 0
    /\ LET settled == Settle(ctx)
       IN /\ settled.inserted
          /\ PathFinderTargetReached(settled.ctx, settled.ctx.currentNode)
          /\ ctx' = settled.ctx
          /\ result' = ReconstructPath(settled.ctx, settled.ctx.currentNode, settled.ctx.facingDirection)
          /\ movementScript' = result'
    /\ pc' = "returned"
    /\ pops' = pops + 1
    /\ UNCHANGED <<map, objectEvent, args, started, sounds, searches, refused, heap>>

\* the popped node is expanded
LoopExpand ==
    /\ pc = "loop"
    /\ ctx.nodeFrontier.size # 0
    /\ LET settled == Settle(ctx)
       IN /\ settled.inserted
          /\ ~PathFinderTargetReached(settled.ctx, settled.ctx.currentNode)
          /\ LET expanded == ExpandNeighbors(settled.ctx)
             IN /\ ctx' = expanded.ctx
                /\ refused' = refused + expanded.refused
    /\ pops' = pops + 1
    /\ UNCHANGED <<map, objectEvent, args, pc, result, movementScript, started, sounds, searches, heap>>

\* mutant: the NULL pointer is played as it is
Substitute_Keep(script) == script

\* the script the caller plays for a returned pointer
Substitute(script) == IF script = NullScript THEN FailScriptPointer ELSE script

\* mutant: no cue when an allocation was refused
FailureCue_Quiet(script) == IF script = NullScript /\ refused = 0 THEN <<SE_PIN>> ELSE <<>>

\* the sounds the caller plays for a returned pointer
FailureCue(script) == IF script = NullScript THEN <<SE_PIN>> ELSE <<>>

\* if (movementScript == NULL) { PlaySE; movementScript = fail script }; destroy
HandleResult ==
    /\ pc = "returned"
    /\ sounds' = sounds \o FailureCue(movementScript)
    /\ movementScript' = Substitute(movementScript)
    /\ ctx' = DestroyPathFinderContext(ctx)
    /\ pc' = "start"
    /\ UNCHANGED <<map, objectEvent, args, result, started, searches, refused, pops, heap>>

\* objectEvent->directionOverwrite = DIR_NONE; ScriptMovement_StartObjectMovementScript
StartMovement ==
    /\ pc = "start"
    /\ objectEvent' = [objectEvent EXCEPT !.directionOverwrite = DIR_NONE]
    /\ started' = Append(started, ScriptAt(movementScript))
    /\ pc' = "done"
    /\ UNCHANGED <<map, args, ctx, result, movementScript, sounds, searches, refused, pops, heap>>

Next ==
    \/ CreateContext
    \/ FindNoBudget
    \/ FindSeed
    \/ LoopExit
    \/ LoopDiscard
    \/ LoopGoal
    \/ LoopExpand
    \/ HandleResult
    \/ StartMovement

\* the steps with the allocations that fail
NextAlloc ==
    \/ Next
    \/ FindSeedUnserved
    \/ UndefinedOutcome

(***************************************************************************)
(* Initial states: a terrain, an object standing on a passable tile of it  *)
(* and the arguments of one call.                                          *)
(***************************************************************************)
\* the elevation of plain ground
GroundElevation == 3

Terrain(w, h, walls, elevation, behavior, slowStairs) ==
    [walls |-> walls,
     elevation |-> [t \in TilesOf(w, h) |-> IF t \in DOMAIN elevation THEN elevation[t] ELSE GroundElevation],
     behavior |-> [t \in TilesOf(w, h) |-> IF t \in DOMAIN behavior THEN behavior[t] ELSE MB_NORMAL],
     slowStairs |-> slowStairs]

Plain == [t \in {} |-> 0]

InitWith(m, start, elevation, overwrite, target, facing, speed, maxNodes) ==
    /\ map = m
    /\ objectEvent = [currentCoords |-> [x |-> start[1], y |-> start[2]],
                      currentElevation |-> elevation,
                      directionOverwrite |-> overwrite]
    /\ args = [targetX |-> target[1] - MAP_OFFSET, targetY |-> target[2] - MAP_OFFSET,
               facingDirection |-> facing, speed |-> speed, maxNodes |-> maxNodes]
    /\ ctx = NoContext
    /\ pc = "call"
    /\ result = NullScript
    /\ movementScript = NullScript
    /\ started = <<>>
    /\ sounds = <<>>
    /\ searches = 0
    /\ refused = 0
    /\ pops = 0

Budgets == (0..SmallBudget) \cup {BigBudget}
OpenBudgets == (0..OpenBudget) \cup {BigBudget}

Tiles == TilesOf(GridW, GridH)
Corner == <<MAP_OFFSET, MAP_OFFSET>>

WallSets(n) == {ws \in SUBSET Tiles : Cardinality(ws) <= n}

\* walled grids at ground elevation, every budget
InitWalls ==
    \E walls \in WallSets(MaxWalls) :
    \E start \in Tiles \ walls :
    \E target \in Tiles :
    \E maxNodes \in Budgets :
        InitWith(Terrain(GridW, GridH, walls, Plain, Plain, FALSE),
                 start, GroundElevation, DIR_NONE, target, DIR_NONE, 1, maxNodes)

\* one ledge tile
InitLedge ==
    \E ledge \in Tiles :
    \E direction \in Cardinals :
    \E start \in Tiles \ {ledge} :
    \E target \in Tiles :
    \E maxNodes \in {SmallBudget, BigBudget} :
        InitWith(Terrain(GridW, GridH, {}, Plain, ledge :> direction, FALSE),
                 start, GroundElevation, DIR_NONE, target, DIR_NONE, 1, maxNodes)

\* one tile off the ground elevation: elevation 0, another level, or the
\* value PATH_FINDER_MAX_ELEVATION; the object at ground elevation or at 0
InitElevation ==
    \E tile \in Tiles :
    \E elevation \in {0, GroundElevation + 1, PATH_FINDER_MAX_ELEVATION} :
    \E current \in {0, GroundElevation} :
    \E start \in Tiles :
    \E target \in Tiles :
        InitWith(Terrain(GridW, GridH, {}, tile :> elevation, Plain, FALSE),
                 start, current, DIR_NONE, target, DIR_NONE, 1, BigBudget)

\* a forced direction, at most one wall
InitOverwrite ==
    \E overwrite \in DIR_SOUTH..DIR_NORTHEAST :
    \E walls \in WallSets(1) :
    \E start \in Tiles \ walls :
    \E target \in Tiles :
        InitWith(Terrain(GridW, GridH, walls, Plain, Plain, FALSE),
                 start, GroundElevation, overwrite, target, DIR_NONE, 1, BigBudget)

\* one rock stairs tile, with and without SLOW_MOVEMENT_ON_STAIRS, every speed
InitStairs ==
    \E stairs \in Tiles :
    \E slow \in BOOLEAN :
    \E speed \in 0..MaxSpeed :
    \E target \in Tiles :
        InitWith(Terrain(GridW, GridH, {}, Plain, stairs :> MB_ROCK_STAIRS, slow),
                 Corner, GroundElevation, DIR_NONE, target, DIR_NONE, speed, BigBudget)

\* every requested facing and speed on the open grid
InitFacing ==
    \E target \in Tiles :
    \E facing \in 0..MaxFacing :
    \E speed \in 0..MaxSpeed :
        InitWith(Terrain(GridW, GridH, {}, Plain, Plain, FALSE),
                 Corner, GroundElevation, DIR_NONE, target, facing, speed, BigBudget)

\* Alloc serves every allocation of the context
Served == heap = Allocations

Init ==
    /\ InitWalls \/ InitLedge \/ InitElevation \/ InitOverwrite \/ InitStairs \/ InitFacing
    /\ Served

Spec == Init /\ [][Next]_vars

\* open grids at ground elevation
InitOpen ==
    \E start \in TilesOf(OpenW, OpenH) :
    \E target \in TilesOf(OpenW, OpenH) :
    \E maxNodes \in OpenBudgets :
        /\ InitWith(Terrain(OpenW, OpenH, {}, Plain, Plain, FALSE),
                    start, GroundElevation, DIR_NONE, target, DIR_NONE, 1, maxNodes)
        /\ Served

SpecOpen == InitOpen /\ [][Next]_vars

\* MoveObjectEventToCoords runs on one thread and waits for nothing: from
\* every position but the last its next step is taken.  The step is named by
\* what it does to pc and pops, which every step of Next changes.
Runs ==
    \/ pc = "call" /\ pc' = "find" /\ pops' = pops
    \/ pc = "find" /\ pc' \in {"loop", "returned"} /\ pops' = pops
    \/ pc = "loop" /\ ctx.nodeFrontier.size = 0 /\ pc' = "returned" /\ pops' = pops
    \/ pc = "loop" /\ ctx.nodeFrontier.size # 0 /\ pc' \in {"loop", "returned"} /\ pops' = pops + 1
    \/ pc = "returned" /\ pc' = "start" /\ pops' = pops
    \/ pc = "start" /\ pc' = "done" /\ pops' = pops

SpecLive == Init /\ [][Next]_vars /\ WF_<<pc, pops>>(Runs)

\* grids with at most one wall, every subset of the allocations served
InitAlloc ==
    \E walls \in WallSets(1) :
    \E start \in Tiles \ walls :
    \E target \in Tiles :
    \E maxNodes \in {0, 1, BigBudget} :
    \E served \in SUBSET Allocations :
        /\ InitWith(Terrain(GridW, GridH, walls, Plain, Plain, FALSE),
                    start, GroundElevation, DIR_NONE, target, DIR_NONE, 1, maxNodes)
        /\ heap = served

SpecAlloc == InitAlloc /\ [][NextAlloc]_vars

(***************************************************************************)
(* Invocations one after another: when the script of an invocation was     *)
(* started the script command is run again, for the same object, with      *)
(* another target and budget.  The local variables of the function hold    *)
(* what the invocation before left in them.                                *)
(***************************************************************************)
MaxCalls == 2

CallAgain ==
    /\ pc = "done"
    /\ Len(started) < MaxCalls
    /\ \E target \in Tiles : \E maxNodes \in {0, SmallBudget, BigBudget} :
           args' = [args EXCEPT !.targetX = target[1] - MAP_OFFSET,
                                !.targetY = target[2] - MAP_OFFSET,
                                !.maxNodes = maxNodes]
    /\ pc' = "call"
    /\ refused' = 0
    /\ pops' = 0
    /\ UNCHANGED <<map, objectEvent, ctx, result, movementScript, started, sounds, searches, heap>>

NextAgain ==
    \/ Next
    \/ CallAgain

\* the object in the corner of a grid with at most one wall
InitAgain ==
    \E walls \in WallSets(1) :
    \E target \in Tiles :
    \E maxNodes \in {0, SmallBudget, BigBudget} :
        /\ Corner \notin walls
        /\ InitWith(Terrain(GridW, GridH, walls, Plain, Plain, FALSE),
                    Corner, GroundElevation, DIR_NONE, target, DIR_NONE, 1, maxNodes)
        /\ Served

SpecAgain == InitAgain /\ [][NextAgain]_vars

(***************************************************************************)
(* Searches of an object with a forced direction, from the corner: on a    *)
(* grid with a ledge tile, and on a grid with at most one wall.            *)
(***************************************************************************)
InitOverride ==
    \E overwrite \in DIR_SOUTH..DIR_NORTHEAST :
    \E target \in Tiles :
        \/ \E ledge \in Tiles \ {Corner} : \E direction \in Cardinals :
               /\ InitWith(Terrain(GridW, GridH, {}, Plain, ledge :> direction, FALSE),
                           Corner, GroundElevation, overwrite, target, DIR_NONE, 1, BigBudget)
               /\ Served
        \/ \E walls \in WallSets(1) : \E maxNodes \in {0, SmallBudget, BigBudget} :
               /\ Corner \notin walls
               /\ InitWith(Terrain(GridW, GridH, walls, Plain, Plain, FALSE),
                           Corner, GroundElevation, overwrite, target, DIR_NONE, 1, maxNodes)
               /\ Served

SpecOverride == InitOverride /\ [][Next]_vars

(***************************************************************************)
(* Searches from the corner of a grid with one tile off the ground         *)
(* elevation, another level or the value PATH_FINDER_MAX_ELEVATION, and    *)
(* with at most BridgeWalls walls, which can close the target in.          *)
(***************************************************************************)
BridgeWalls == 2

InitBridge ==
    \E tile \in Tiles :
    \E elevation \in {GroundElevation + 1, PATH_FINDER_MAX_ELEVATION} :
    \E current \in {0, GroundElevation} :
    \E walls \in WallSets(BridgeWalls) :
    \E target \in Tiles :
    \E maxNodes \in {0, BigBudget} :
        /\ Corner \notin walls
        /\ tile \notin walls
        /\ InitWith(Terrain(GridW, GridH, walls, tile :> elevation, Plain, FALSE),
                    Corner, current, DIR_NONE, target, DIR_NONE, 1, maxNodes)
        /\ Served

SpecBridge == InitBridge /\ [][Next]_vars

(***************************************************************************)
(* The priority queue on its own: a pool of QueueNodes nodes of every      *)
(* costF in 0..MaxCost, pushed and popped in every order.                  *)
(***************************************************************************)
QueueNodes == 4
MaxCost == 2

\* the nodes the frontier holds
Held(c) == {At(c.nodeFrontier.nodes, i) : i \in 0..(c.nodeFrontier.size - 1)}

InitQueue ==
    \E costs \in [1..QueueNodes -> 0..MaxCost] :
        /\ map = Terrain(GridW, GridH, {}, Plain, Plain, FALSE)
        /\ objectEvent = [currentCoords |-> [x |-> Corner[1], y |-> Corner[2]],
                          currentElevation |-> GroundElevation,
                          directionOverwrite |-> DIR_NONE]
        /\ args = [targetX |-> 0, targetY |-> 0, facingDirection |-> DIR_NONE, speed |-> 1,
                   maxNodes |-> QueueNodes]
        /\ ctx = [CreatePathFinderContext(0, 0, DIR_NONE, 1, QueueNodes) EXCEPT
                     !.nodeBuffer = [i \in 1..QueueNodes |->
                                       [parent |-> NULL, costG |-> 0, costF |-> costs[i],
                                        x |-> MAP_OFFSET + i - 1, y |-> MAP_OFFSET,
                                        elevation |-> GroundElevation,
                                        movementAction |-> UNINIT, originDirection |-> DIR_NONE]],
                     !.nodeCount = QueueNodes]
        /\ pc = "queue"
        /\ result = NullScript
        /\ movementScript = NullScript
        /\ started = <<>>
        /\ sounds = <<>>
        /\ searches = 0
        /\ refused = 0
        /\ pops = 0
        /\ Served

\* PathQueue_Push(ctx->nodeFrontier, node) for a node of the pool not held
QueuePush ==
    /\ pc = "queue"
    /\ \E node \in (1..Len(ctx.nodeBuffer)) \ Held(ctx) :
           LET pushed == PathQueue_Push(ctx, node)
           IN /\ pushed.ok
              /\ ctx' = pushed.ctx
    /\ UNCHANGED <<map, objectEvent, args, pc, result, movementScript, started, sounds, searches, refused, pops, heap>>

\* PathQueue_Pop(ctx->nodeFrontier, &node), the node popped kept in currentNode
QueuePop ==
    /\ pc = "queue"
    /\ LET popped == PathQueue_Pop(ctx)
       IN /\ popped.ok
          /\ ctx' = [popped.ctx EXCEPT !.currentNode = popped.outNode]
    /\ UNCHANGED <<map, objectEvent, args, pc, result, movementScript, started, sounds, searches, refused, pops, heap>>

NextQueue ==
    \/ QueuePush
    \/ QueuePop

SpecQueue == InitQueue /\ [][NextQueue]_vars

(***************************************************************************)
(* The set of explored nodes on its own: a pool of ListNodes nodes on two  *)
(* columns, two rows and two elevations, equal nodes among them, inserted  *)
(* in every order.  pc tells what the last PathList_TryInsert returned.     *)
(***************************************************************************)
ListNodes == 3

ListKeys ==
    {MAP_OFFSET, MAP_OFFSET + 1} \X {MAP_OFFSET, MAP_OFFSET + 1} \X {0, GroundElevation}

InitList ==
    \E keys \in [1..ListNodes -> ListKeys] :
        /\ map = Terrain(GridW, GridH, {}, Plain, Plain, FALSE)
        /\ objectEvent = [currentCoords |-> [x |-> Corner[1], y |-> Corner[2]],
                          currentElevation |-> GroundElevation,
                          directionOverwrite |-> DIR_NONE]
        /\ args = [targetX |-> 0, targetY |-> 0, facingDirection |-> DIR_NONE, speed |-> 1,
                   maxNodes |-> ListNodes]
        /\ ctx = [CreatePathFinderContext(0, 0, DIR_NONE, 1, ListNodes) EXCEPT
                     !.nodeBuffer = [i \in 1..ListNodes |->
                                       [parent |-> NULL, costG |-> 0, costF |-> 0,
                                        x |-> keys[i][1], y |-> keys[i][2],
                                        elevation |-> keys[i][3],
                                        movementAction |-> UNINIT, originDirection |-> DIR_NONE]],
                     !.nodeCount = ListNodes]
        /\ pc = "list"
        /\ result = NullScript
        /\ movementScript = NullScript
        /\ started = <<>>
        /\ sounds = <<>>
        /\ searches = 0
        /\ refused = 0
        /\ pops = 0
        /\ Served

\* ctx->currentNode = NULL; PathList_TryInsert(&ctx->exploredNodes, node,
\* &ctx->currentNode) returns TRUE
ListInsert ==
    /\ pc \in {"list", "inserted", "present"}
    /\ \E node \in 1..Len(ctx.nodeBuffer) :
           LET tried == PathList_TryInsert([ctx EXCEPT !.currentNode = NULL], node)
           IN /\ tried.inserted
              /\ ctx' = [tried.ctx EXCEPT !.currentNode = tried.out]
    /\ pc' = "inserted"
    /\ UNCHANGED <<map, objectEvent, args, result, movementScript, started, sounds, searches, refused, pops, heap>>

\* the same call returns FALSE
ListPresent ==
    /\ pc \in {"list", "inserted", "present"}
    /\ \E node \in 1..Len(ctx.nodeBuffer) :
           LET tried == PathList_TryInsert([ctx EXCEPT !.currentNode = NULL], node)
           IN /\ ~tried.inserted
              /\ ctx' = [tried.ctx EXCEPT !.currentNode = tried.out]
    /\ pc' = "present"
    /\ UNCHANGED <<map, objectEvent, args, result, movementScript, started, sounds, searches, refused, pops, heap>>

NextList ==
    \/ ListInsert
    \/ ListPresent

SpecList == InitList /\ [][NextList]_vars

(***************************************************************************)
(* Reading a script: what its actions do to the position of the object.    *)
(***************************************************************************)
WalkBases == {MOVEMENT_ACTION_WALK_SLOW_DOWN, MOVEMENT_ACTION_WALK_NORMAL_DOWN,
              MOVEMENT_ACTION_WALK_FAST_DOWN, MOVEMENT_ACTION_WALK_FASTER_DOWN}

IsWalk(action) == \E base \in WalkBases : action \in base..(base + DIR_NORTHEAST - 1)
IsCardinalWalk(action) == \E base \in WalkBases : action \in base..(base + DIR_EAST - 1)
IsJump(action) == action \in MOVEMENT_ACTION_JUMP_2_DOWN..(MOVEMENT_ACTION_JUMP_2_DOWN + DIR_EAST - 1)

WalkBase(action) == CHOOSE base \in WalkBases : action \in base..(base + DIR_NORTHEAST - 1)
JumpDirection(action) == action - MOVEMENT_ACTION_JUMP_2_DOWN + 1

\* the tiles an action moves the object: <<dx, dy>>
Moved(action) ==
    IF IsWalk(action)
    THEN LET v == gDirectionToVectors(action - WalkBase(action) + 1) IN <<v.x, v.y>>
    ELSE IF IsJump(action)
    THEN LET v == gDirectionToVectors(JumpDirection(action)) IN <<2 * v.x, 2 * v.y>>
    ELSE <<0, 0>>

RECURSIVE Replay(_, _)
Replay(script, tile) ==
    IF script = <<>> THEN tile
    ELSE Replay(Tail(script), <<tile[1] + Moved(Head(script))[1], tile[2] + Moved(Head(script))[2]>>)

StartTile == <<objectEvent.currentCoords.x, objectEvent.currentCoords.y>>
TargetTile == <<args.targetX + MAP_OFFSET, args.targetY + MAP_OFFSET>>
Distance(a, b) == (IF a[1] > b[1] THEN a[1] - b[1] ELSE b[1] - a[1])
                  + (IF a[2] > b[2] THEN a[2] - b[2] ELSE b[2] - a[2])

Found == pc = "returned" /\ result # NullScript
Failed == pc = "returned" /\ result = NullScript
Returned == ScriptAt(result)
Steps(script) == Cardinality({i \in 1..Len(script) : IsWalk(script[i]) \/ IsJump(script[i])})

\* the requested facing is none or one CreatePathFinderContext maps to 1..4
FacingInRange == args.facingDirection \in DIR_NONE..DIR_NORTHEAST

(***************************************************************************)
(* C1.  No partial paths: a returned script, replayed from the tile of the *)
(* object (a walk moves one tile, a jump two), ends on the target tile,    *)
(* and its last action is the end marker.  The requested facing is none or *)
(* one the code maps to a cardinal direction (1..8): the action emitted    *)
(* for another value is MOVEMENT_ACTION_FACE_DOWN plus an offset past the  *)
(* four face actions, a code defined outside path_finding.c.               *)
(***************************************************************************)
C1_NoPartialPath ==
    (Found /\ FacingInRange) =>
        /\ Replay(Returned, StartTile) = TargetTile
        /\ Returned # <<>>
        /\ Returned[Len(Returned)] = MOVEMENT_ACTION_GENERATED_END

\* a returned path of several actions with a ledge jump in it
C1_Witness ==
    /\ Found
    /\ Steps(Returned) >= 2
    /\ \E i \in 1..Len(Returned) : IsJump(Returned[i])

(***************************************************************************)
(* C2.  Start tile equal to target tile.  As stated, for every search: the *)
(* result is a script without walk or jump action.                         *)
(***************************************************************************)
C2_Original ==
    (pc = "returned" /\ StartTile = TargetTile) => (result # NullScript /\ Steps(Returned) = 0)

\* C2 as amended: with a node budget of at least 1 the result is a script
\* without an action of the path: the end marker alone, or the action of the
\* requested facing and the end marker, behind the begin marker of the buffer
C2_ZeroSteps ==
    (pc = "returned" /\ StartTile = TargetTile /\ args.maxNodes >= 1) =>
        /\ result # NullScript
        /\ Len(Returned) = (IF args.facingDirection = DIR_NONE THEN 1 ELSE 2)
        /\ Returned[Len(Returned)] = MOVEMENT_ACTION_GENERATED_END
        /\ args.facingDirection # DIR_NONE =>
               Returned[1] = MOVEMENT_ACTION_FACE_DOWN - 1
                             + (IF args.facingDirection > DIR_EAST
                                THEN args.facingDirection - DIR_EAST
                                ELSE args.facingDirection)
        /\ FacingInRange => Steps(Returned) = 0
        /\ result.buffer[1] = MOVEMENT_ACTION_GENERATED_BEGIN

\* a search from the target tile with a facing requested has returned
C2_Witness ==
    /\ Found
    /\ StartTile = TargetTile
    /\ args.facingDirection \in Cardinals

(***************************************************************************)
(* C3.  On the open grid (no wall, one elevation, no ledge, no override) a *)
(* returned path has as many steps as the Manhattan distance from start to *)
(* target, and every action before the end marker is a cardinal walk.      *)
(***************************************************************************)
C3_OpenGridManhattan ==
    Found => /\ Steps(Returned) = Distance(StartTile, TargetTile)
             /\ \A i \in 1..(Len(Returned) - 1) : IsCardinalWalk(Returned[i])

\* a returned path that has to turn: start and target differ in both axes
C3_Witness ==
    /\ Found
    /\ StartTile[1] # TargetTile[1]
    /\ StartTile[2] # TargetTile[2]
    /\ Distance(StartTile, TargetTile) >= 4

(***************************************************************************)
(* C4.  The 5x5 scenario: start (0,0), target (3,0), normal speed, facing  *)
(* unspecified.                                                            *)
(***************************************************************************)
StepEastNormal == MOVEMENT_ACTION_WALK_NORMAL_DOWN + DIR_EAST - 1
Scenario ==
    /\ map = Terrain(OpenW, OpenH, {}, Plain, Plain, FALSE)
    /\ StartTile = <<MAP_OFFSET, MAP_OFFSET>>
    /\ args.targetX = 3 /\ args.targetY = 0
    /\ args.speed = 1
    /\ args.facingDirection = DIR_NONE
    /\ objectEvent.directionOverwrite = DIR_NONE

\* as stated, with the ample budget: the returned sequence is
\* [begin, east, east, east, end]
C4_Original ==
    (pc = "returned" /\ Scenario /\ args.maxNodes = BigBudget) =>
        /\ result # NullScript
        /\ Returned = <<MOVEMENT_ACTION_GENERATED_BEGIN, StepEastNormal, StepEastNormal,
                        StepEastNormal, MOVEMENT_ACTION_GENERATED_END>>

\* C4 as amended: with a node budget of at least 7 the buffer that is built is
\* [begin, east, east, east, end] and the returned sequence starts behind the
\* begin marker: [east, east, east, end]
C4_Scenario ==
    (pc = "returned" /\ Scenario /\ args.maxNodes >= 7) =>
        /\ result # NullScript
        /\ result.buffer = <<MOVEMENT_ACTION_GENERATED_BEGIN, StepEastNormal, StepEastNormal,
                             StepEastNormal, MOVEMENT_ACTION_GENERATED_END>>
        /\ Returned = <<StepEastNormal, StepEastNormal, StepEastNormal,
                        MOVEMENT_ACTION_GENERATED_END>>

\* the scenario has returned with the smallest budget that finds the path
C4_Witness == Found /\ Scenario /\ args.maxNodes = 7

\* with a smaller positive budget the scenario fails
C4_SmallBudgetFails ==
    (pc = "returned" /\ Scenario /\ args.maxNodes < 7) => result = NullScript

(***************************************************************************)
(* C5.  Unreachable target.  The target tile is walled, so every edge into *)
(* it is Blocked, and no allocation was refused, so the budget sufficed to *)
(* exhaust the reachable region: the search returns the failure sentinel.  *)
(***************************************************************************)
TargetWalled ==
    /\ TargetTile \in map.walls
    /\ \A direction \in Cardinals :
           /\ GetLedgeJumpDirectionWithBehavior(direction,
                  MapGridGetMetatileBehaviorAt(TargetTile[1], TargetTile[2])) = DIR_NONE
           /\ \A elevation \in 0..PATH_FINDER_MAX_ELEVATION :
                  GetCollisionWithBehaviorsAtCoords(TargetTile[1], TargetTile[2], elevation,
                                                    direction, MB_NORMAL, MB_NORMAL) # COLLISION_NONE

C5_UnreachableFails ==
    (pc = "returned" /\ TargetWalled /\ refused = 0) => result = NullScript

\* the same, for the requests without a forced direction
C5_NoOverwrite ==
    (pc = "returned" /\ TargetWalled /\ refused = 0 /\ objectEvent.directionOverwrite = DIR_NONE)
        => result = NullScript

(***************************************************************************)
(* C6.  Node budget 1, start different from target: the start node is the  *)
(* only node ever created, every neighbour allocation is refused, the      *)
(* frontier empties and the search returns the failure sentinel.           *)
(***************************************************************************)
C6_BudgetOne ==
    (args.maxNodes = 1 /\ StartTile # TargetTile) =>
        /\ ctx.nodeCount <= 1
        /\ Len(ctx.nodeBuffer) <= 1
        /\ pc = "returned" =>
               /\ result = NullScript
               /\ ctx.nodeCount = 1
               /\ ctx.nodeFrontier.size = 0
               /\ ctx.exploredNodes.size = 1

\* a search with budget 1 has failed after refusing several neighbours
C6_Witness ==
    /\ Failed
    /\ args.maxNodes = 1
    /\ StartTile # TargetTile
    /\ refused >= 2

(***************************************************************************)
(* C7.  Node budget 0: the search returns the failure sentinel and no node *)
(* was created, pushed or settled, whatever the start and the target.      *)
(***************************************************************************)
C7_BudgetZero ==
    args.maxNodes = 0 =>
        /\ ctx.nodeCount = 0
        /\ ctx.nodeBuffer = <<>>
        /\ ctx.nodeFrontier.size = 0
        /\ ctx.exploredNodes.size = 0
        /\ pc # "loop"
        /\ pc = "returned" => result = NullScript

\* a search with budget 0 from the target tile itself has returned
C7_Witness ==
    /\ Failed
    /\ args.maxNodes = 0
    /\ searches = 1
    /\ StartTile = TargetTile

(***************************************************************************)
(* C9.  The failures surface identically: after a failed search what the   *)
(* caller holds (the pointer, the sounds played, the scripts started) is   *)
(* the same whether allocations were refused (budget reached) or not (the  *)
(* frontier emptied with budget remaining).                                *)
(***************************************************************************)
C9_FailuresAlike ==
    (pc \in {"returned", "start", "done"} /\ result = NullScript) =>
        /\ movementScript = (IF pc = "returned" THEN NullScript ELSE FailScriptPointer)
        /\ sounds = (IF pc = "returned" THEN <<>> ELSE <<SE_PIN>>)
        /\ started = (IF pc = "done" THEN <<sPathFinderFailScript>> ELSE <<>>)

\* a search that failed with the budget reached, handled by the caller
C9_Witness ==
    /\ pc = "done"
    /\ result = NullScript
    /\ refused > 0
    /\ args.maxNodes > 1

\* a search that failed with budget remaining, handled by the caller
C9_NoPathReached ==
    /\ pc = "done"
    /\ result = NullScript
    /\ refused = 0
    /\ args.maxNodes = BigBudget

(***************************************************************************)
(* C10.  On a failure the caller has run the search once, played the       *)
(* failure cue once and started one script, the emote followed by the      *)
(* terminal marker; nothing more happens after that.                       *)
(***************************************************************************)
C10_CallerOnFailure ==
    /\ searches <= 1
    /\ (pc = "done" /\ result = NullScript) =>
           /\ searches = 1
           /\ Len(sounds) = 1 /\ sounds[1] = SE_PIN
           /\ Len(started) = 1
           /\ started[1] = <<MOVEMENT_ACTION_EMOTE_X, MOVEMENT_ACTION_STEP_END>>
           /\ ~ENABLED Next

\* the caller has handled a failed search of a positive budget
C10_Witness ==
    /\ pc = "done"
    /\ result = NullScript
    /\ args.maxNodes = SmallBudget
    /\ Len(started) = 1

(***************************************************************************)
(* C11.  Storage not obtained.  When Alloc returns NULL for the node pool, *)
(* the frontier or the visited set, the invocation does not enter the      *)
(* search loop: no node is created, pushed, popped or inserted, and the    *)
(* search returns the failure sentinel.                                    *)
(***************************************************************************)
C11_AbortsBeforeLoop ==
    heap # Allocations =>
        /\ pc \notin {"loop", "undefined"}
        /\ ctx.nodeCount = 0
        /\ ctx.nodeFrontier.size = 0
        /\ ctx.exploredNodes.size = 0
        /\ pops = 0
        /\ pc \in {"returned", "start", "done"} => result = NullScript

\* the same for a node budget of 0, where FindPathForObjectEvent returns
\* before it touches the context
C11_ZeroBudgetAborts ==
    (heap # Allocations /\ args.maxNodes = 0) =>
        /\ pc \notin {"loop", "undefined"}
        /\ ctx.nodeCount = 0
        /\ ctx.nodeFrontier.size = 0
        /\ pops = 0
        /\ pc \in {"returned", "start", "done"} => result = NullScript

\* a step of Next can be taken: the guards of the actions of a position
\* leave no case out
CanStep ==
    /\ pc \in {"call", "find", "loop", "returned", "start", "done"}
    /\ pc = "find" => (ReturnsEarly(args.maxNodes) \/ heap = Allocations)
    /\ (pc = "loop" /\ ctx.nodeFrontier.size # 0) =>
           LET settled == Settle(ctx)
           IN \/ ~settled.inserted
              \/ settled.inserted /\ PathFinderTargetReached(settled.ctx, settled.ctx.currentNode)
              \/ settled.inserted /\ ~PathFinderTargetReached(settled.ctx, settled.ctx.currentNode)

(***************************************************************************)
(* C12.  Termination.  The while loop pops at most as many nodes as the    *)
(* node budget, and every search that was started returns.                 *)
(***************************************************************************)
C12_Terminates ==
    /\ [](pops <= args.maxNodes)
    /\ [](CanStep)
    /\ (pc = "find") ~> (pc = "returned")

\* a search has returned after as many pops as its budget, the budget
\* being several nodes
C12_Witness ==
    /\ pc = "returned"
    /\ args.maxNodes >= 3
    /\ pops = args.maxNodes

(***************************************************************************)
(* C13.  Node budget.                                                      *)
(***************************************************************************)
\* nodes held by the frontier and by the set of explored nodes
HeldNodes == ctx.nodeFrontier.size + ctx.exploredNodes.size

\* C13: in every state of a search the count of live nodes is at most the
\* node budget, PathNode_Create returns no node when the count equals the
\* budget, and the frontier and the set of explored nodes together hold no
\* more nodes than were counted, hence no more than the budget
C13_NodeBudget ==
    /\ ctx.nodeCount <= ctx.maxNodes
    /\ ctx.nodeCount = ctx.maxNodes =>
           \A direction \in Cardinals \cup {DIR_NONE} :
               PathNode_Create(ctx, ctx.start.x, ctx.start.y, direction, 0).node = NULL
    /\ HeldNodes <= ctx.nodeCount
    /\ HeldNodes <= ctx.maxNodes

\* the budget is used up, a neighbour was refused, and every counted node is
\* still held
C13_Witness ==
    /\ pc = "loop"
    /\ ctx.maxNodes >= 3
    /\ ctx.nodeCount = ctx.maxNodes
    /\ refused > 0
    /\ HeldNodes = ctx.maxNodes

(***************************************************************************)
(* C14.  Heap invariant of the frontier.                                   *)
(***************************************************************************)
CostF(node) == Node(ctx, node).costF

\* no element's costF is greater than the costF of a child of it
HeapOrdered(queue) ==
    \A index \in 0..(queue.size - 1) :
    \A child \in {GetLeftChild(index), GetLeftChild(index) + 1} :
        child < queue.size => CostF(At(queue.nodes, index)) <= CostF(At(queue.nodes, child))

\* C14: after any sequence of pushes and pops no element's costF is greater
\* than the costF of either of its children, the root holds a minimum costF
\* among the held elements, and a pop returns an element of minimal costF
\* among those held before it and leaves the others held
C14_HeapInvariant ==
    /\ Len(ctx.nodeFrontier.nodes) = ctx.nodeFrontier.size
    /\ HeapOrdered(ctx.nodeFrontier)
    /\ ctx.nodeFrontier.size # 0 =>
           /\ \A node \in Held(ctx) : CostF(At(ctx.nodeFrontier.nodes, 0)) <= CostF(node)
           /\ LET popped == PathQueue_Pop(ctx)
              IN /\ popped.ok
                 /\ popped.outNode \in Held(ctx)
                 /\ \A node \in Held(ctx) : CostF(popped.outNode) <= CostF(node)
                 /\ Held(popped.ctx) = Held(ctx) \ {popped.outNode}
                 /\ popped.ctx.nodeFrontier.size = ctx.nodeFrontier.size - 1
                 /\ HeapOrdered(popped.ctx.nodeFrontier)

\* a pop has returned a node and the frontier still holds three nodes of
\* three costs, the last pushed of them at the root
C14_Witness ==
    /\ pc = "queue"
    /\ ctx.currentNode # NULL
    /\ ctx.nodeFrontier.size = 3
    /\ Cardinality({CostF(node) : node \in Held(ctx)}) = 3
    /\ \A node \in Held(ctx) : node <= At(ctx.nodeFrontier.nodes, 0)

(***************************************************************************)
(* C15.  Uniqueness in the set of explored nodes.                          *)
(***************************************************************************)
\* the slots of the set that store a node
StoredSlots == {index \in 0..(ctx.exploredNodes.capacity - 1) : At(ctx.exploredNodes.nodes, index) # NULL}

Stored(index) == At(ctx.exploredNodes.nodes, index)

\* the (x, y, elevation) of a node
Key(node) == <<Node(ctx, node).x, Node(ctx, node).y, Node(ctx, node).elevation>>

\* C15: after any sequence of PathList_TryInsert calls no two stored entries
\* share the same (x, y, elevation), and PathList_TryInsert of a node equal to
\* a stored entry returns FALSE with the stored node in *out and leaves the
\* table as it is
C15_Unique ==
    /\ \A i \in StoredSlots : \A j \in StoredSlots : i # j => Key(Stored(i)) # Key(Stored(j))
    /\ ctx.exploredNodes.size = Cardinality(StoredSlots)
    /\ \A node \in 1..Len(ctx.nodeBuffer) : \A i \in StoredSlots :
           Key(node) = Key(Stored(i)) =>
               LET tried == PathList_TryInsert([ctx EXCEPT !.currentNode = NULL], node)
               IN /\ ~tried.inserted
                  /\ tried.out = Stored(i)
                  /\ tried.ctx.exploredNodes = ctx.exploredNodes

\* PathList_TryInsert has returned FALSE with a stored node that an earlier
\* insertion probed past its home slot, for another node of the same
\* (x, y, elevation)
C15_Witness ==
    /\ pc = "present"
    /\ \E i \in StoredSlots :
           /\ ctx.currentNode = Stored(i)
           /\ HomeSlot(ctx, Stored(i)) # i
           /\ \E node \in 1..Len(ctx.nodeBuffer) : node # Stored(i) /\ Key(node) = Key(Stored(i))

(***************************************************************************)
(* C16.  Ledge-jump edges.                                                 *)
(***************************************************************************)
\* the tile next to a node in a direction is a ledge of that direction
LedgeAhead(node, direction) ==
    GetLedgeJumpDirectionWithBehavior(direction,
        MapGridGetMetatileBehaviorAt(Node(ctx, node).x + gDirectionToVectors(direction).x,
                                     Node(ctx, node).y + gDirectionToVectors(direction).y)) # DIR_NONE

\* a node is what a ledge jump from its parent in a direction has to create
JumpsFrom(node, parent, direction) ==
    /\ Node(ctx, node).parent = parent
    /\ Node(ctx, node).x = Node(ctx, parent).x + 2 * gDirectionToVectors(direction).x
    /\ Node(ctx, node).y = Node(ctx, parent).y + 2 * gDirectionToVectors(direction).y
    /\ Node(ctx, node).costG = Node(ctx, parent).costG + 2
    /\ Node(ctx, node).movementAction = MOVEMENT_ACTION_JUMP_2_DOWN + direction - 1

\* the directions a node is expanded in
Expanded(node) ==
    LET direction == Node(ctx, node).originDirection
    IN {sNeighbors(direction)[i] : i \in 1..sNeighborCount(direction)}

\* C16: a ledge-jump edge from a node creates a candidate exactly two tiles
\* away in the expansion direction, with the costG of the parent plus 2 and
\* the jump action of that direction.  Every counted node that was created
\* across a ledge is such a candidate; and the node last expanded has such a
\* candidate for every ledge next to it, unless the budget is used up or the
\* tile two away is explored already
C16_LedgeJump ==
    /\ objectEvent.directionOverwrite = DIR_NONE =>
           \A node \in 1..ctx.nodeCount : \A direction \in Cardinals :
               (/\ Node(ctx, node).parent # NULL
                /\ Node(ctx, node).originDirection = OppositeDirection(direction)
                /\ LedgeAhead(Node(ctx, node).parent, direction))
               => JumpsFrom(node, Node(ctx, node).parent, direction)
    /\ (pc = "loop" /\ ctx.currentNode # NULL) =>
           \A direction \in Expanded(ctx.currentNode) :
               LedgeAhead(ctx.currentNode, direction) =>
                   LET x == Node(ctx, ctx.currentNode).x + 2 * gDirectionToVectors(direction).x
                       y == Node(ctx, ctx.currentNode).y + 2 * gDirectionToVectors(direction).y
                   IN \/ \E node \in 1..ctx.nodeCount : JumpsFrom(node, ctx.currentNode, direction)
                      \/ ctx.nodeCount = ctx.maxNodes
                      \/ \E i \in StoredSlots :
                             Key(Stored(i)) = <<x, y, PathNode_GetElevation(ctx, ctx.currentNode, x, y)>>

\* a node other than the start was expanded across a ledge and the
\* candidate, on a tile of the map, is counted
C16_Witness ==
    /\ pc = "loop"
    /\ \E node \in 1..ctx.nodeCount :
           /\ IsJump(Node(ctx, node).movementAction)
           /\ Node(ctx, node).parent # NULL
           /\ Node(ctx, node).costG > 2
           /\ InMap(Node(ctx, node).x, Node(ctx, node).y)
           /\ JumpsFrom(node, Node(ctx, node).parent, JumpDirection(Node(ctx, node).movementAction))

(***************************************************************************)
(* C17.  Path serialization.                                               *)
(***************************************************************************)
\* the nodes from the start node to a node, along the parents
RECURSIVE Chain(_)
Chain(node) ==
    IF node = NULL THEN <<>> ELSE Append(Chain(Node(ctx, node).parent), node)

\* the face actions of the four cardinal directions
FaceActions == MOVEMENT_ACTION_FACE_DOWN..(MOVEMENT_ACTION_FACE_DOWN + DIR_EAST - 1)

\* C17: for the goal node, k edges after the start node, the buffer of the
\* script holds k + 2 entries when no facing is requested and k + 3
\* otherwise: the begin marker, the k movement actions of the nodes after the
\* start node in the order from start to goal, for a cardinal facing the
\* face action of that direction, and the end marker; without a requested
\* facing no face action
C17_Serialization ==
    (pc = "returned" /\ result # NullScript) =>
        LET chain == Chain(ctx.currentNode)
            k == Len(chain) - 1
            buffer == result.buffer
        IN /\ k >= 0
           /\ PathFinderTargetReached(ctx, ctx.currentNode)
           /\ Len(buffer) = (IF args.facingDirection = DIR_NONE THEN k + 2 ELSE k + 3)
           /\ buffer[1] = MOVEMENT_ACTION_GENERATED_BEGIN
           /\ \A i \in 1..k : buffer[1 + i] = Node(ctx, chain[i + 1]).movementAction
           /\ buffer[Len(buffer)] = MOVEMENT_ACTION_GENERATED_END
           /\ args.facingDirection \in Cardinals =>
                  buffer[Len(buffer) - 1] = MOVEMENT_ACTION_FACE_DOWN + args.facingDirection - 1
           /\ args.facingDirection = DIR_NONE =>
                  \A i \in 1..Len(buffer) : buffer[i] \notin FaceActions

\* a path of three or more edges that turns, returned with a cardinal facing
C17_Witness ==
    /\ pc = "returned"
    /\ result # NullScript
    /\ args.facingDirection \in Cardinals
    /\ Len(result.buffer) >= 6
    /\ result.buffer[2] # result.buffer[3]

\* a path of three or more edges returned without a facing
C17_WitnessUnspecified ==
    /\ pc = "returned"
    /\ result # NullScript
    /\ args.facingDirection = DIR_NONE
    /\ Len(result.buffer) >= 5

(***************************************************************************)
(* C18.  Speed tiers.                                                      *)
(***************************************************************************)
\* the while loop of FindPathForObjectEvent run to its return on a context
RECURSIVE SearchFrom(_)
SearchFrom(c) ==
    IF c.nodeFrontier.size = 0 THEN NullScript
    ELSE LET settled == Settle(c)
         IN IF ~settled.inserted THEN SearchFrom(settled.ctx)
            ELSE IF PathFinderTargetReached(settled.ctx, settled.ctx.currentNode)
            THEN ReconstructPath(settled.ctx, settled.ctx.currentNode, settled.ctx.facingDirection)
            ELSE SearchFrom(ExpandNeighbors(settled.ctx).ctx)

\* the script FindPathForObjectEvent returns for the call of this behaviour
\* made with a speed
ScriptFor(speed) ==
    IF ReturnsEarly(args.maxNodes) THEN NullScript
    ELSE SearchFrom(SeedStart(CreatePathFinderContext(args.targetX, args.targetY,
                                                      args.facingDirection, speed, args.maxNodes)))

\* the tier a requested speed stands for
Tier(speed) == IF speed > 3 THEN 3 ELSE speed

\* the tier of the step that created a node: one lower where the step
\* touches rock stairs and stairs are slow
StepTier(node) ==
    LET parent == Node(ctx, node).parent
        onStairs == \/ MapGridGetMetatileBehaviorAt(Node(ctx, node).x, Node(ctx, node).y) = MB_ROCK_STAIRS
                    \/ MapGridGetMetatileBehaviorAt(Node(ctx, parent).x, Node(ctx, parent).y) = MB_ROCK_STAIRS
    IN IF map.slowStairs /\ onStairs /\ Tier(args.speed) # 0
       THEN Tier(args.speed) - 1
       ELSE Tier(args.speed)

\* the actions of the movement table of a tier
TableOf(tier) == {sMovementsBySpeed(tier, direction) : direction \in DIR_SOUTH..DIR_NORTHEAST}

Destroyed ==
    /\ ctx.nodeBuffer = <<>>
    /\ ctx.nodeCount = 0
    /\ ctx.nodeFrontier.nodes = <<>> /\ ctx.nodeFrontier.capacity = 0 /\ ctx.nodeFrontier.size = 0
    /\ ctx.exploredNodes.nodes = <<>> /\ ctx.exploredNodes.capacity = 0 /\ ctx.exploredNodes.size = 0

\* the context is the one created for the call of this invocation
OwnContext ==
    /\ ctx.maxNodes = args.maxNodes
    /\ ctx.target = [x |-> args.targetX + MAP_OFFSET, y |-> args.targetY + MAP_OFFSET]
    /\ ctx.start = objectEvent.currentCoords
    /\ ctx.nodeFrontier.capacity = args.maxNodes
    /\ ctx.exploredNodes.capacity = NextPowerOfTwo(args.maxNodes)

\* C19: in every invocation, successful or not, one context is created, the
\* one search of the invocation runs to its end on it, and the context is
\* destroyed before the script is handed to playback; nothing of a context
\* reaches the next invocation: the context it starts on and the script it
\* returns are those of a first invocation
C19_Lifecycle ==
    /\ pc = "call" => Len(started) = searches /\ Destroyed
    /\ pc = "find" =>
           /\ Len(started) = searches
           /\ ctx = CreatePathFinderContext(args.targetX, args.targetY, args.facingDirection,
                                            args.speed, args.maxNodes)
    /\ pc \in {"find", "loop", "returned"} => OwnContext
    /\ pc \in {"loop", "returned", "start"} => searches = Len(started) + 1
    /\ pc = "returned" => result = ScriptFor(args.speed)
    /\ pc \in {"start", "done"} => Destroyed
    /\ pc = "done" =>
           /\ searches = Len(started)
           /\ started[Len(started)] = ScriptAt(Substitute(result))

\* a second invocation has handed over its script, another than that of the
\* first; one of the two failed
C19_Witness ==
    /\ pc = "done"
    /\ Len(started) = 2
    /\ started[1] # started[2]
    /\ \E i \in 1..2 : started[i] = sPathFinderFailScript
    /\ \E i \in 1..2 : Len(started[i]) > 3
    /\ Destroyed

(***************************************************************************)
(* C20.  First settled wins.                                               *)
(***************************************************************************)
\* the nodes the set of explored nodes of a context stores
StoredIn(c) ==
    {At(c.exploredNodes.nodes, index) : index \in 0..(c.exploredNodes.capacity - 1)} \ {NULL}

\* the (x, y, elevation) of a node of a context
KeyIn(c, node) == <<Node(c, node).x, Node(c, node).y, Node(c, node).elevation>>

\* the node the next pop returns is explored already
Duplicate ==
    /\ pc = "loop"
    /\ ctx.nodeFrontier.size # 0
    /\ \E node \in StoredIn(ctx) : KeyIn(ctx, node) = KeyIn(ctx, At(ctx.nodeFrontier.nodes, 0))

\* a step of the loop on a node that is explored already: no return, no node
\* created or pushed, nothing stored, the stored entry in ctx->currentNode
Discards ==
    /\ pc' = "loop"
    /\ result' = result
    /\ ctx'.nodeBuffer = ctx.nodeBuffer
    /\ ctx'.nodeCount = ctx.nodeCount
    /\ ctx'.exploredNodes = ctx.exploredNodes
    /\ ctx'.nodeFrontier.size = ctx.nodeFrontier.size - 1
    /\ ctx'.currentNode \in StoredIn(ctx)
    /\ ctx'.currentNode # At(ctx.nodeFrontier.nodes, 0)
    /\ KeyIn(ctx, ctx'.currentNode) = KeyIn(ctx, At(ctx.nodeFrontier.nodes, 0))

\* a step of the loop keeps every stored entry as it is
KeepsEntries ==
    /\ StoredIn(ctx) \subseteq StoredIn(ctx')
    /\ \A node \in StoredIn(ctx) : Node(ctx', node) = Node(ctx, node)

\* a step of the loop on a node not yet explored stores that node alone, and
\* the nodes it pushes are equal to no stored entry
SettlesOnce ==
    /\ StoredIn(ctx') = StoredIn(ctx) \cup {At(ctx.nodeFrontier.nodes, 0)}
    /\ ctx'.exploredNodes.size = ctx.exploredNodes.size + 1
    /\ ctx'.currentNode = At(ctx.nodeFrontier.nodes, 0)
    /\ \A node \in (ctx.nodeCount + 1)..ctx'.nodeCount :
           /\ node \in Held(ctx')
           /\ \A stored \in StoredIn(ctx') : KeyIn(ctx', node) # KeyIn(ctx', stored)

\* C20: when the (x, y, elevation) of a popped node is in the set of explored
\* nodes already, the node is discarded without goal test and without
\* expansion, and the stored entry keeps its costG, parent and movement
\* action; an (x, y, elevation) is stored and expanded once at most, and no
\* candidate equal to a stored entry is pushed
C20_FirstSettledWins ==
    [][(pc = "loop" /\ ctx.nodeFrontier.size # 0) =>
           /\ Duplicate => Discards
           /\ KeepsEntries
           /\ ~Duplicate => SettlesOnce]_vars

\* a node was discarded for an entry stored with another parent, and the
\* search went on
C20_Witness ==
    /\ pc = "loop"
    /\ ctx.currentNode # NULL
    /\ ctx.currentNode \in StoredIn(ctx)
    /\ \E node \in (1..ctx.nodeCount) \ (StoredIn(ctx) \cup Held(ctx)) :
           /\ KeyIn(ctx, node) = KeyIn(ctx, ctx.currentNode)
           /\ Node(ctx, node).parent # Node(ctx, ctx.currentNode).parent
    /\ ctx.nodeFrontier.size # 0

(***************************************************************************)
(* C21.  A refused allocation skips one edge.                              *)
(***************************************************************************)
\* a node is at the target position of the call
AtTarget(node) ==
    /\ Node(ctx, node).x = args.targetX + MAP_OFFSET
    /\ Node(ctx, node).y = args.targetY + MAP_OFFSET

\* C21: a refused node allocation during expansion skips only that edge:
\* the step that was refused a node stays in the loop with the other nodes
\* of the frontier still held; a search with a budget fails only with an
\* empty frontier and with no counted node at the target; and a search that
\* was refused a node while a node at the target is held returns a path
C21_RefusalSkipsEdge ==
    /\ [][refused' > refused =>
             /\ pc' = "loop"
             /\ result' = result
             /\ Held(ctx) \ {At(ctx.nodeFrontier.nodes, 0)} \subseteq Held(ctx')]_vars
    /\ []((pc = "returned" /\ result = NullScript /\ args.maxNodes # 0) =>
             /\ ctx.nodeFrontier.size = 0
             /\ \A node \in 1..ctx.nodeCount : ~AtTarget(node))
    /\ (pc = "loop" /\ refused > 0 /\ \E node \in Held(ctx) : AtTarget(node))
           ~> (pc = "returned" /\ result # NullScript)

\* a search that was refused a node went on and returned a path, with nodes
\* left in the frontier
C21_Witness ==
    /\ pc = "returned"
    /\ result # NullScript
    /\ refused > 0
    /\ ctx.nodeCount = ctx.maxNodes
    /\ ctx.exploredNodes.size >= 3
    /\ ctx.nodeFrontier.size > 0

(***************************************************************************)
(* The calls of TryCreateNeighbor, one at a time.                          *)
(***************************************************************************)
\* TryCreateNeighbor(c, direction) up to its last statement: whether the edge
\* is one it makes a candidate for (edge), the direction, tile and cost of
\* the candidate, whether PathNode_Create granted the node (granted), whether
\* PathQueue_Push is reached (push), and the context at that point
Candidate(c, direction) ==
    LET currentNode == Node(c, c.currentNode)
        neighborX == currentNode.x + gDirectionToVectors(direction).x
        neighborY == currentNode.y + gDirectionToVectors(direction).y
        nextBehavior == MapGridGetMetatileBehaviorAt(neighborX, neighborY)
        currentBehavior == MapGridGetMetatileBehaviorAt(currentNode.x, currentNode.y)
        collision == CheckForPathFinderCollision(c, neighborX, neighborY, direction,
                                                 currentBehavior, nextBehavior)
        edge == collision \in {COLLISION_NONE, COLLISION_LEDGE_JUMP}
        dir == IF collision = COLLISION_NONE THEN StepDirection(direction) ELSE direction
        length == IF collision = COLLISION_LEDGE_JUMP THEN JumpLength ELSE 1
        x == currentNode.x + gDirectionToVectors(dir).x * length
        y == currentNode.y + gDirectionToVectors(dir).y * length
        costG == currentNode.costG + sPrecomputedDistance(dir) * length
        created == PathNode_Create(c, x, y, dir, costG)
        granted == edge /\ created.node # NULL
        push == granted /\ ~PathList_HasNode(created.ctx, created.node)
        action == IF collision = COLLISION_NONE
                  THEN sMovementsBySpeed(StepSpeed(c, dir, currentBehavior, nextBehavior), dir)
                  ELSE sJump2Movement(direction)
    IN [collision |-> collision, edge |-> edge, direction |-> dir, x |-> x, y |-> y,
        costG |-> costG, action |-> action, granted |-> granted, push |-> push,
        node |-> IF granted THEN created.node ELSE NULL,
        ctx |-> IF push THEN SetMovementAction(created.ctx, created.node, action)
                ELSE IF granted THEN created.ctx ELSE c]

\* the calls of TryCreateNeighbor the next step of the loop makes: the
\* context each call finds, its direction, its place in the for loop
ExpansionCalls ==
    IF pc = "loop" /\ ctx.nodeFrontier.size # 0
    THEN LET settled == Settle(ctx)
             origin == Node(settled.ctx, settled.ctx.currentNode).originDirection
         IN IF settled.inserted /\ ~PathFinderTargetReached(settled.ctx, settled.ctx.currentNode)
            THEN {[ctx |-> ExpandUpTo(settled.ctx, origin, i - 1).ctx,
                   direction |-> sNeighbors(origin)[i],
                   i |-> i] : i \in 1..sNeighborCount(origin)}
            ELSE {}
    ELSE {}

(***************************************************************************)
(* C22.  The push to the frontier never fails.                             *)
(***************************************************************************)
\* C22: during a search PathQueue_Push never fails: the capacity of the
\* frontier is the node budget, the push of the start node and every push
\* of TryCreateNeighbor find fewer elements than the capacity and return
\* TRUE, and a push is reached only with a node PathNode_Create granted
C22_PushNeverFails ==
    /\ pc \in {"find", "loop", "returned"} => ctx.nodeFrontier.capacity = args.maxNodes
    /\ (pc = "find" /\ args.maxNodes # 0) =>
           /\ ctx.nodeFrontier.size < ctx.nodeFrontier.capacity
           /\ SeedStart(ctx).nodeFrontier.size = 1
    /\ \A call \in ExpansionCalls :
           LET candidate == Candidate(call.ctx, call.direction)
           IN /\ candidate.push =>
                     /\ candidate.node # NULL
                     /\ call.ctx.nodeCount < call.ctx.maxNodes
                     /\ call.ctx.nodeFrontier.size < call.ctx.nodeFrontier.capacity
                     /\ PathQueue_Push(candidate.ctx, candidate.node).ok
                     /\ TryCreateNeighbor(call.ctx, call.direction)
                            = PushNeighbor(candidate.ctx, candidate.node)
              /\ ~candidate.push =>
                     TryCreateNeighbor(call.ctx, call.direction) = candidate.ctx

\* the last node the budget allows was granted and pushed: the frontier
\* holds it
C22_Witness ==
    /\ pc = "loop"
    /\ ctx.maxNodes >= 4
    /\ ctx.nodeCount = ctx.maxNodes
    /\ ctx.maxNodes \in Held(ctx)
    /\ ctx.nodeFrontier.size >= 3

(***************************************************************************)
(* C23.  Parent chain.                                                     *)
(***************************************************************************)
\* the nodes met by following the parents of a node for at most n steps,
\* the node itself first
RECURSIVE Ancestors(_, _)
Ancestors(node, n) ==
    IF node = NULL THEN <<>>
    ELSE IF n = 0 THEN <<node>>
    ELSE <<node>> \o Ancestors(Node(ctx, node).parent, n - 1)

\* the nodes of the frontier and of the set of explored nodes
LiveNodes == Held(ctx) \cup StoredIn(ctx)

\* C23: every node of the frontier or of the set of explored nodes other
\* than the start node has one parent, a node of the set of explored nodes,
\* with a costG strictly below its own; following the parents from a node
\* reaches the start node in fewer steps than the budget and meets no node
\* twice
C23_ParentChain ==
    \A node \in LiveNodes :
        LET chain == Ancestors(node, ctx.maxNodes)
            root == chain[Len(chain)]
        IN /\ node \in 1..ctx.nodeCount
           /\ (Node(ctx, node).parent = NULL) <=> (node = 1)
           /\ node # 1 =>
                  /\ Node(ctx, node).parent \in StoredIn(ctx)
                  /\ Node(ctx, node).costG > Node(ctx, Node(ctx, node).parent).costG
           /\ Len(chain) - 1 < ctx.maxNodes
           /\ root = 1
           /\ Node(ctx, root).parent = NULL
           /\ <<Node(ctx, root).x, Node(ctx, root).y>> = <<ctx.start.x, ctx.start.y>>
           /\ \A i \in 1..Len(chain) : \A j \in 1..Len(chain) : i # j => chain[i] # chain[j]

\* the frontier holds a node four edges from the start node
C23_Witness ==
    /\ pc = "loop"
    /\ \E node \in Held(ctx) : Len(Ancestors(node, ctx.maxNodes)) >= 5

(***************************************************************************)
(* C24.  Backtrack pruning.                                                *)
(***************************************************************************)
\* the directions of the calls of TryCreateNeighbor of the next step, in the
\* order of the calls
ExpansionOrder ==
    IF pc = "loop" /\ ctx.nodeFrontier.size # 0
    THEN LET settled == Settle(ctx)
             origin == Node(settled.ctx, settled.ctx.currentNode).originDirection
         IN IF settled.inserted /\ ~PathFinderTargetReached(settled.ctx, settled.ctx.currentNode)
            THEN [i \in 1..sNeighborCount(origin) |-> sNeighbors(origin)[i]]
            ELSE <<>>
    ELSE <<>>

\* the reverse of a cardinal direction
Reverse(direction) ==
    CASE direction = DIR_SOUTH -> DIR_NORTH
      [] direction = DIR_NORTH -> DIR_SOUTH
      [] direction = DIR_WEST -> DIR_EAST
      [] direction = DIR_EAST -> DIR_WEST

\* the cardinal direction of the step or jump that a movement action is
Travelled(action) ==
    IF IsJump(action) THEN JumpDirection(action) ELSE action - WalkBase(action) + 1

\* south, north, west, east without a direction
Without(direction) ==
    LET Other(d) == d # direction
    IN SelectSeq(<<DIR_SOUTH, DIR_NORTH, DIR_WEST, DIR_EAST>>, Other)

\* C24: the start node is expanded to the south, north, west and east in
\* that order; a node reached by a cardinal step or a ledge jump in a
\* direction is expanded in the three other directions than the reverse of
\* it, in the same relative order, and never in that reverse
C24_BacktrackPruning ==
    ExpansionOrder # <<>> =>
        LET node == At(ctx.nodeFrontier.nodes, 0)
            action == Node(ctx, node).movementAction
        IN /\ Node(ctx, node).parent = NULL =>
                  ExpansionOrder = <<DIR_SOUTH, DIR_NORTH, DIR_WEST, DIR_EAST>>
           /\ (Node(ctx, node).parent # NULL /\ (IsCardinalWalk(action) \/ IsJump(action))) =>
                  /\ ExpansionOrder = Without(Reverse(Travelled(action)))
                  /\ Len(ExpansionOrder) = 3
                  /\ \A i \in 1..Len(ExpansionOrder) :
                         ExpansionOrder[i] # Reverse(Travelled(action))

\* a node reached by a step to the east is next to be expanded, and its
\* three calls each push a candidate
C24_Witness ==
    /\ ExpansionCalls # {}
    /\ Node(ctx, At(ctx.nodeFrontier.nodes, 0)).parent # NULL
    /\ IsCardinalWalk(Node(ctx, At(ctx.nodeFrontier.nodes, 0)).movementAction)
    /\ Travelled(Node(ctx, At(ctx.nodeFrontier.nodes, 0)).movementAction) = DIR_EAST
    /\ ExpansionOrder = <<DIR_SOUTH, DIR_NORTH, DIR_EAST>>
    /\ \A call \in ExpansionCalls : Candidate(call.ctx, call.direction).push

\* a node reached by a ledge jump is next to be expanded
C24_WitnessJump ==
    /\ ExpansionCalls # {}
    /\ IsJump(Node(ctx, At(ctx.nodeFrontier.nodes, 0)).movementAction)

(***************************************************************************)
(* C25.  Forced direction.                                                 *)
(***************************************************************************)
\* the node a call of TryCreateNeighbor writes when PathNode_Create grants it
Written(call) == Node(TryCreateNeighbor(call.ctx, call.direction), call.ctx.nodeCount + 1)

\* C25: while the object has a forced direction, a call of TryCreateNeighbor
\* for a free edge makes its candidate at the current tile plus the vector of
\* the forced direction, with the cost and the movement action of the forced
\* direction; a call for a blocked edge makes no candidate; a call for a
\* ledge-jump edge makes the candidate of its own direction
C25_ForcedDirection ==
    objectEvent.directionOverwrite # DIR_NONE =>
        \A call \in ExpansionCalls :
            LET current == Node(call.ctx, call.ctx.currentNode)
                candidate == Candidate(call.ctx, call.direction)
                forced == objectEvent.directionOverwrite
                own == call.direction
            IN /\ (candidate.collision = COLLISION_NONE /\ candidate.granted) =>
                      /\ Written(call).x = current.x + gDirectionToVectors(forced).x
                      /\ Written(call).y = current.y + gDirectionToVectors(forced).y
                      /\ Written(call).costG = current.costG + (IF forced <= DIR_EAST THEN 1 ELSE 2)
                      /\ Written(call).parent = call.ctx.currentNode
                      /\ candidate.push =>
                             /\ Written(call).movementAction
                                    = MOVEMENT_ACTION_WALK_NORMAL_DOWN + forced - 1
                             /\ (call.ctx.nodeCount + 1)
                                    \in Held(TryCreateNeighbor(call.ctx, call.direction))
               /\ (candidate.collision = COLLISION_LEDGE_JUMP /\ candidate.granted) =>
                      /\ Written(call).x = current.x + 2 * gDirectionToVectors(own).x
                      /\ Written(call).y = current.y + 2 * gDirectionToVectors(own).y
                      /\ Written(call).costG = current.costG + 2
                      /\ candidate.push =>
                             Written(call).movementAction = MOVEMENT_ACTION_JUMP_2_DOWN + own - 1
               /\ candidate.collision \notin {COLLISION_NONE, COLLISION_LEDGE_JUMP} =>
                      TryCreateNeighbor(call.ctx, call.direction) = call.ctx

\* with a forced direction, the next expansion pushes a candidate for a free
\* edge in another direction than the forced one, pushes a candidate for a
\* ledge-jump edge, and meets a blocked edge
C25_Witness ==
    /\ objectEvent.directionOverwrite # DIR_NONE
    /\ \E call \in ExpansionCalls :
           /\ Candidate(call.ctx, call.direction).collision = COLLISION_NONE
           /\ Candidate(call.ctx, call.direction).push
           /\ call.direction # objectEvent.directionOverwrite
    /\ \E call \in ExpansionCalls :
           /\ Candidate(call.ctx, call.direction).collision = COLLISION_LEDGE_JUMP
           /\ Candidate(call.ctx, call.direction).push
    /\ \E call \in ExpansionCalls :
           Candidate(call.ctx, call.direction).collision = COLLISION_IMPASSABLE

(***************************************************************************)
(* C26.  Elevation of the nodes.                                           *)
(***************************************************************************)
\* C26: the elevation of the start node is the current elevation of the
\* object, whatever the map holds at its tile; the elevation of every other
\* node is the elevation of the map at its tile, or the elevation of its
\* parent where the map holds PATH_FINDER_MAX_ELEVATION; and a popped node
\* is refused by the set of explored nodes only for an entry of the same
\* tile and the same elevation
C26_Elevation ==
    /\ \A node \in LiveNodes :
           LET terrain == MapGridGetElevationAt(Node(ctx, node).x, Node(ctx, node).y)
           IN IF Node(ctx, node).parent = NULL
              THEN Node(ctx, node).elevation = objectEvent.currentElevation
              ELSE IF terrain = 15
              THEN Node(ctx, node).elevation = Node(ctx, Node(ctx, node).parent).elevation
              ELSE Node(ctx, node).elevation = terrain
    /\ (pc = "loop" /\ ctx.nodeFrontier.size # 0) =>
           (Settle(ctx).inserted <=>
               \A stored \in StoredIn(ctx) :
                   \/ Node(ctx, stored).x # Node(ctx, At(ctx.nodeFrontier.nodes, 0)).x
                   \/ Node(ctx, stored).y # Node(ctx, At(ctx.nodeFrontier.nodes, 0)).y
                   \/ Node(ctx, stored).elevation # Node(ctx, At(ctx.nodeFrontier.nodes, 0)).elevation)

\* the set of explored nodes stores two nodes of one tile, a tile where the
\* map holds PATH_FINDER_MAX_ELEVATION, with the elevations of their parents;
\* the start node stands on ground of another elevation than its own
C26_Witness ==
    /\ pc = "loop"
    /\ \E a \in StoredIn(ctx) : \E b \in StoredIn(ctx) :
           /\ Node(ctx, a).x = Node(ctx, b).x
           /\ Node(ctx, a).y = Node(ctx, b).y
           /\ Node(ctx, a).elevation # Node(ctx, b).elevation
           /\ MapGridGetElevationAt(Node(ctx, a).x, Node(ctx, a).y) = 15
    /\ Node(ctx, 1).elevation # MapGridGetElevationAt(Node(ctx, 1).x, Node(ctx, 1).y)

(***************************************************************************)
(* C27.  Completeness.                                                     *)
(***************************************************************************)
\* the edge from a tile in a cardinal direction is free at an elevation
FreeEdge(tile, direction, elevation) ==
    LET x == tile[1] + gDirectionToVectors(direction).x
        y == tile[2] + gDirectionToVectors(direction).y
    IN GetCollisionWithBehaviorsAtCoords(x, y, elevation, direction,
           MapGridGetMetatileBehaviorAt(tile[1], tile[2]),
           MapGridGetMetatileBehaviorAt(x, y)) = COLLISION_NONE

\* the tiles reached from a set of tiles through free edges
RECURSIVE ReachFrom(_, _)
ReachFrom(tiles, elevation) ==
    LET more == {<<t[1] + gDirectionToVectors(d).x, t[2] + gDirectionToVectors(d).y>> :
                    <<t, d>> \in {<<t, d>> \in tiles \X Cardinals : FreeEdge(t, d, elevation)}}
    IN IF more \subseteq tiles THEN tiles ELSE ReachFrom(tiles \cup more, elevation)

Reachable == ReachFrom({StartTile}, objectEvent.currentElevation)

\* the map is at the elevation of the object all over, without a ledge, the
\* object has no forced direction, the target is reached from the start
\* through free edges, and the budget is 4 times the number of the tiles
\* reached plus 1 or more
Completable ==
    /\ \A t \in DOMAIN map.elevation : map.elevation[t] = objectEvent.currentElevation
    /\ \A t \in DOMAIN map.behavior : map.behavior[t] \notin Cardinals
    /\ objectEvent.directionOverwrite = DIR_NONE
    /\ TargetTile \in Reachable
    /\ args.maxNodes >= 4 * Cardinality(Reachable) + 1

\* C27: on a map at one elevation, without ledges and without a forced
\* direction, with the target reachable from the start through free edges
\* and a budget of at least 4 times the number of reachable tiles plus 1, the
\* search returns, and what it returns is a path
C27_Completeness ==
    /\ []((pc = "returned" /\ Completable) => result # NullScript)
    /\ (pc = "call" /\ Completable) ~> (pc = "returned" /\ result # NullScript)

\* a path round two walls, longer than the distance, was returned to a call
\* that is within the conditions
C27_Witness ==
    /\ pc = "returned"
    /\ Completable
    /\ Cardinality(map.walls) = 2
    /\ result # NullScript
    /\ Steps(Returned) > Distance(StartTile, TargetTile)

(***************************************************************************)
(* C28.  The steps of a path are free edges.                               *)
(***************************************************************************)
\* the direction of a walk action, diagonals included
WalkDirection(action) == action - WalkBase(action) + 1

\* the move that the step action of a node is, from the tile of its parent
\* at the elevation of its parent, is one the map classifies as free
StepIsFree(node) ==
    LET parent == Node(ctx, Node(ctx, node).parent)
        direction == WalkDirection(Node(ctx, node).movementAction)
        x == parent.x + gDirectionToVectors(direction).x
        y == parent.y + gDirectionToVectors(direction).y
        currentBehavior == MapGridGetMetatileBehaviorAt(parent.x, parent.y)
        nextBehavior == MapGridGetMetatileBehaviorAt(x, y)
    IN /\ GetLedgeJumpDirectionWithBehavior(direction, nextBehavior) = DIR_NONE
       /\ GetCollisionWithBehaviorsAtCoords(x, y, parent.elevation, direction,
                                            currentBehavior, nextBehavior) = COLLISION_NONE

\* the nodes of the returned path that were made by a step
StepNodes ==
    LET chain == Chain(ctx.currentNode)
    IN {chain[i] : i \in {i \in 2..Len(chain) : IsWalk(Node(ctx, chain[i]).movementAction)}}

\* C28: every step action of a returned path is an edge the map classified
\* as free, from the tile before it, in its own direction, at the elevation
\* of the node before it, whatever the forced direction of the object
C28_StepsAreFree ==
    (pc = "returned" /\ result # NullScript) =>
        \A node \in StepNodes : StepIsFree(node)

\* the same for an object without a forced direction
C28_FreeWithoutOverride ==
    (pc = "returned" /\ result # NullScript /\ objectEvent.directionOverwrite = DIR_NONE) =>
        \A node \in StepNodes : StepIsFree(node)

\* a path of three steps or more round a wall was returned for an object
\* without a forced direction
C28_WitnessWithoutOverride ==
    /\ pc = "returned"
    /\ result # NullScript
    /\ objectEvent.directionOverwrite = DIR_NONE
    /\ map.walls # {}
    /\ Cardinality(StepNodes) >= 3

(***************************************************************************)
(* C29.  The storage of the nodes.                                         *)
(***************************************************************************)
\* the nodes a context holds in its frontier or in its set of explored nodes
LiveIn(c) == Held(c) \cup StoredIn(c)

\* a call of TryCreateNeighbor that was granted a node and gave it up because
\* the set of explored nodes has an equal one
GivesBack(call) ==
    LET candidate == Candidate(call.ctx, call.direction)
    IN candidate.granted /\ ~candidate.push

\* C29: the storage of a node is never written over: every node of the
\* frontier or of the set of explored nodes lies below index nodeCount, a
\* call of TryCreateNeighbor writes no slot but the one at index nodeCount,
\* and a candidate given up because an equal node is explored leaves
\* nodeCount, the frontier and the set as they were, so that the next
\* candidate is written to the same slot
C29_NoClobber ==
    /\ pc = "loop" => LiveNodes \subseteq 1..ctx.nodeCount
    /\ (pc = "loop" /\ ctx.nodeFrontier.size # 0) =>
           Settle(ctx).ctx.nodeBuffer = ctx.nodeBuffer
    /\ \A call \in ExpansionCalls :
           LET candidate == Candidate(call.ctx, call.direction)
               after == TryCreateNeighbor(call.ctx, call.direction)
               slot == call.ctx.nodeCount + 1
           IN /\ LiveIn(call.ctx) \subseteq 1..call.ctx.nodeCount
              /\ Len(after.nodeBuffer) >= Len(call.ctx.nodeBuffer)
              /\ \A p \in 1..Len(call.ctx.nodeBuffer) :
                     p # slot => Node(after, p) = Node(call.ctx, p)
              /\ candidate.granted => candidate.node = slot
              /\ GivesBack(call) =>
                     /\ after.nodeCount = call.ctx.nodeCount
                     /\ after.nodeFrontier = call.ctx.nodeFrontier
                     /\ after.exploredNodes = call.ctx.exploredNodes
              /\ candidate.push =>
                     /\ after.nodeCount = slot
                     /\ LiveIn(after) = LiveIn(call.ctx) \cup {slot}

\* in one expansion a candidate was written and given up, and a later
\* candidate was written to the same slot and pushed
C29_Witness ==
    \E first \in ExpansionCalls : \E second \in ExpansionCalls :
        /\ first.i < second.i
        /\ GivesBack(first)
        /\ Candidate(second.ctx, second.direction).push
        /\ Candidate(second.ctx, second.direction).node
               = Candidate(first.ctx, first.direction).node
        /\ ctx.nodeCount < ctx.maxNodes

(***************************************************************************)
(* C30.  The set of explored nodes has room.                               *)
(***************************************************************************)
\* the number of entries PathList_TryInsert passes over before it returns;
\* the capacity when its loop runs to the end
RECURSIVE ProbesFrom(_, _, _, _)
ProbesFrom(c, node, index, i) ==
    LET list == c.exploredNodes
        current == At(list.nodes, index)
    IN IF i >= list.capacity THEN i
       ELSE IF current = NULL \/ PathNode_Equal(c, current, node) THEN i
       ELSE ProbesFrom(c, node, BitAnd(index + 1, list.mask), i + 1)

ProbesUsed(c, node) == ProbesFrom(c, node, HomeSlot(c, node), 0)

\* the context and the node of the call of PathList_TryInsert the next step
\* of the loop makes
InsertCall ==
    LET popped == PathQueue_Pop(ctx)
    IN [ctx |-> [popped.ctx EXCEPT !.currentNode = NULL], node |-> popped.outNode]

\* C30: the set of explored nodes never runs out of room during a search:
\* every call of PathList_TryInsert comes to an empty entry or to an equal
\* node in fewer probes than the capacity, it returns FALSE only with an
\* equal node that is stored, and when it returns TRUE ctx->currentNode is
\* the node that was popped, now stored
C30_RoomInSet ==
    /\ pc = "loop" =>
           /\ ctx.exploredNodes.capacity >= ctx.maxNodes
           /\ ctx.exploredNodes.size = Cardinality(StoredIn(ctx))
    /\ (pc = "loop" /\ ctx.nodeFrontier.size # 0) =>
           LET call == InsertCall
               tried == PathList_TryInsert(call.ctx, call.node)
               settled == Settle(ctx)
           IN /\ ctx.exploredNodes.size < ctx.exploredNodes.capacity
              /\ ProbesUsed(call.ctx, call.node) < ctx.exploredNodes.capacity
              /\ settled.inserted = tried.inserted
              /\ settled.ctx.currentNode # NULL
              /\ settled.ctx.currentNode \in StoredIn(settled.ctx)
              /\ settled.ctx.currentNode \in 1..ctx.nodeCount
              /\ KeyIn(ctx, settled.ctx.currentNode) = KeyIn(ctx, call.node)
              /\ ~tried.inserted =>
                     /\ settled.ctx.currentNode \in StoredIn(ctx)
                     /\ settled.ctx.currentNode # call.node
                     /\ settled.ctx.exploredNodes = ctx.exploredNodes
              /\ tried.inserted =>
                     /\ settled.ctx.currentNode = call.node
                     /\ call.node \notin StoredIn(ctx)
                     /\ \A node \in StoredIn(ctx) : KeyIn(ctx, node) # KeyIn(ctx, call.node)
                     /\ StoredIn(settled.ctx) = StoredIn(ctx) \cup {call.node}
                     /\ settled.ctx.exploredNodes.size = ctx.exploredNodes.size + 1

\* the next call of PathList_TryInsert fills the last empty entry of a set
\* whose capacity is the node budget, after passing over stored nodes
C30_Witness ==
    /\ pc = "loop"
    /\ ctx.nodeFrontier.size # 0
    /\ ctx.exploredNodes.capacity = ctx.maxNodes
    /\ ctx.exploredNodes.size = ctx.exploredNodes.capacity - 1
    /\ ProbesUsed(InsertCall.ctx, InsertCall.node) >= 1
    /\ Settle(ctx).inserted

\* the next call of PathList_TryInsert returns FALSE: an equal node is stored
C30_WitnessEqual ==
    /\ pc = "loop"
    /\ ctx.nodeFrontier.size # 0
    /\ ~Settle(ctx).inserted
    /\ ProbesUsed(InsertCall.ctx, InsertCall.node) >= 1

(***************************************************************************)
(* C31.  The frontier as a multiset with remove-minimum.  The frontier on  *)
(* its own once more: a pool of BagNodes nodes of every costF in           *)
(* 0..MaxCost, any node pushed any number of times, pushes on a full       *)
(* frontier and pops on an empty one included.                             *)
(***************************************************************************)
BagNodes == 3

InitBag ==
    \E costs \in [1..BagNodes -> 0..MaxCost] :
        /\ map = Terrain(GridW, GridH, {}, Plain, Plain, FALSE)
        /\ objectEvent = [currentCoords |-> [x |-> Corner[1], y |-> Corner[2]],
                          currentElevation |-> GroundElevation,
                          directionOverwrite |-> DIR_NONE]
        /\ args = [targetX |-> 0, targetY |-> 0, facingDirection |-> DIR_NONE, speed |-> 1,
                   maxNodes |-> BagNodes]
        /\ ctx = [CreatePathFinderContext(0, 0, DIR_NONE, 1, BagNodes) EXCEPT
                     !.nodeBuffer = [i \in 1..BagNodes |->
                                       [parent |-> NULL, costG |-> 0, costF |-> costs[i],
                                        x |-> MAP_OFFSET + i - 1, y |-> MAP_OFFSET,
                                        elevation |-> GroundElevation,
                                        movementAction |-> UNINIT, originDirection |-> DIR_NONE]],
                     !.nodeCount = BagNodes]
        /\ pc = "bag"
        /\ result = NullScript
        /\ movementScript = NullScript
        /\ started = <<>>
        /\ sounds = <<>>
        /\ searches = 0
        /\ refused = 0
        /\ pops = 0
        /\ Served

BagPlaces == {"bag", "pushed", "full", "popped", "empty"}

\* PathQueue_Push(ctx->nodeFrontier, node) for any node of the pool; pc keeps
\* what it returned
BagPush ==
    /\ pc \in BagPlaces
    /\ \E node \in 1..Len(ctx.nodeBuffer) :
           LET pushed == PathQueue_Push(ctx, node)
           IN /\ ctx' = pushed.ctx
              /\ pc' = IF pushed.ok THEN "pushed" ELSE "full"
    /\ UNCHANGED <<map, objectEvent, args, result, movementScript, started, sounds, searches, refused, pops, heap>>

\* PathQueue_Pop(ctx->nodeFrontier, &ctx->currentNode); pc keeps what it
\* returned, ctx->currentNode is not written when it returns FALSE
BagPop ==
    /\ pc \in BagPlaces
    /\ LET popped == PathQueue_Pop(ctx)
       IN /\ ctx' = IF popped.ok THEN [popped.ctx EXCEPT !.currentNode = popped.outNode]
                    ELSE popped.ctx
          /\ pc' = IF popped.ok THEN "popped" ELSE "empty"
    /\ UNCHANGED <<map, objectEvent, args, result, movementScript, started, sounds, searches, refused, pops, heap>>

NextBag ==
    \/ BagPush
    \/ BagPop

SpecBag == InitBag /\ [][NextBag]_vars

\* the number of times the frontier of a context holds a node
Copies(c, node) ==
    Cardinality({i \in 0..(c.nodeFrontier.size - 1) : At(c.nodeFrontier.nodes, i) = node})

\* the frontier of c holds what the frontier of b holds and node once more
OneMore(c, b, node) ==
    /\ c.nodeFrontier.size = b.nodeFrontier.size + 1
    /\ Len(c.nodeFrontier.nodes) = c.nodeFrontier.size
    /\ \A other \in 1..Len(b.nodeBuffer) :
           Copies(c, other) = Copies(b, other) + (IF other = node THEN 1 ELSE 0)
    /\ [c EXCEPT !.nodeFrontier = b.nodeFrontier] = b

\* C31: the frontier is a multiset with remove-minimum: it is empty at
\* first; after any pushes and pops a push that returns TRUE adds the pushed
\* node once and nothing else, a pop that returns TRUE takes one copy of the
\* node it returns and nothing else, so that the frontier holds the nodes
\* pushed less the nodes popped and its size is the pushes less the pops;
\* a push fails only on a full frontier, a pop only on an empty one, and a
\* failed call changes nothing
C31_Multiset ==
    /\ pc = "bag" => ctx.nodeFrontier.size = 0 /\ ctx.nodeFrontier.nodes = <<>>
    /\ pc \in BagPlaces =>
           /\ Len(ctx.nodeFrontier.nodes) = ctx.nodeFrontier.size
           /\ \A node \in 1..Len(ctx.nodeBuffer) :
                  LET pushed == PathQueue_Push(ctx, node)
                  IN IF ctx.nodeFrontier.size < ctx.nodeFrontier.capacity
                     THEN pushed.ok /\ OneMore(pushed.ctx, ctx, node)
                     ELSE ~pushed.ok /\ pushed.ctx = ctx
           /\ LET popped == PathQueue_Pop(ctx)
              IN IF ctx.nodeFrontier.size # 0
                 THEN /\ popped.ok
                      /\ popped.outNode = At(ctx.nodeFrontier.nodes, 0)
                      /\ OneMore(ctx, popped.ctx, popped.outNode)
                 ELSE ~popped.ok /\ popped.outNode = NULL /\ popped.ctx = ctx

\* a pop has returned a node of which the frontier still holds a copy, next
\* to a node of another cost
C31_Witness ==
    /\ pc = "popped"
    /\ ctx.nodeFrontier.size = 2
    /\ Copies(ctx, ctx.currentNode) = 1
    /\ Cardinality({CostF(At(ctx.nodeFrontier.nodes, i)) : i \in 0..1}) = 2

\* a pop on an empty frontier after pushes and pops
C31_WitnessEmpty ==
    /\ pc = "empty"
    /\ ctx.currentNode # NULL
    /\ ctx.nodeFrontier.size = 0

(***************************************************************************)
(* C32.  Backtrack pruning and the result.  The search before the pruning  *)
(* (src/src/path_finding.c) calls TryCreateNeighbor for the four cardinal  *)
(* directions at every node, and has no slow stairs.                       *)
(***************************************************************************)
\* sNeighbors[] of the search before the pruning
sNeighborsFour == <<DIR_SOUTH, DIR_NORTH, DIR_WEST, DIR_EAST>>

\* for (i = 0; i < ARRAY_COUNT(sNeighbors); i++) TryCreateNeighbor(ctx, currentNode, sNeighbors[i]);
\* after its first i calls
RECURSIVE ExpandFour(_, _)
ExpandFour(c, i) ==
    IF i = 0 THEN c
    ELSE TryCreateNeighbor(ExpandFour(c, i - 1), sNeighborsFour[i])

\* the while loop of the search before the pruning run to its return
RECURSIVE SearchFour(_)
SearchFour(c) ==
    IF c.nodeFrontier.size = 0 THEN NullScript
    ELSE LET settled == Settle(c)
         IN IF ~settled.inserted THEN SearchFour(settled.ctx)
            ELSE IF PathFinderTargetReached(settled.ctx, settled.ctx.currentNode)
            THEN ReconstructPath(settled.ctx, settled.ctx.currentNode, settled.ctx.facingDirection)
            ELSE SearchFour(ExpandFour(settled.ctx, Len(sNeighborsFour)))

\* the script the search before the pruning returns for the call of this
\* behaviour
ScriptFour ==
    IF ReturnsEarly(args.maxNodes) THEN NullScript
    ELSE SearchFour(SeedStart(CreatePathFinderContext(args.targetX, args.targetY,
                                                     args.facingDirection, args.speed,
                                                     args.maxNodes)))

\* terrain at one elevation, without ledges, slow stairs off, an object
\* without a forced direction
PlainTerrain ==
    /\ \A t \in DOMAIN map.elevation : \A u \in DOMAIN map.elevation :
           map.elevation[t] = map.elevation[u]
    /\ \A t \in DOMAIN map.behavior : map.behavior[t] \notin Cardinals
    /\ ~map.slowStairs
    /\ objectEvent.directionOverwrite = DIR_NONE

\* every start, target and budget on a grid at ground elevation with at most
\* one wall, the object at ground elevation or at elevation 0, with two
\* requests of speed and facing
PruneBudget == 6

InitPrune ==
    \E walls \in WallSets(1) :
    \E start \in Tiles \ walls :
    \E current \in {0, GroundElevation} :
    \E target \in Tiles :
    \E request \in {<<DIR_NONE, 1>>, <<DIR_NORTH, MaxSpeed>>} :
    \E maxNodes \in (0..PruneBudget) \cup {BigBudget} :
        /\ InitWith(Terrain(GridW, GridH, walls, Plain, Plain, FALSE),
                    start, current, DIR_NONE, target, request[1], request[2], maxNodes)
        /\ Served

SpecPrune == InitPrune /\ [][Next]_vars

\* the start node has the elevation a node made on its tile has
StartOnTerrain ==
    MapGridGetElevationAt(objectEvent.currentCoords.x, objectEvent.currentCoords.y)
        \in {objectEvent.currentElevation, PATH_FINDER_MAX_ELEVATION}

\* the claim as it is stated, for an object at any elevation
C32_AnyElevation ==
    (pc = "returned" /\ PlainTerrain) => result = ScriptFour

\* C32 as amended: on terrain at one elevation without ledges, with slow
\* stairs off and no forced direction, for an object whose elevation is the
\* elevation of the terrain, the search returns what the search that
\* expands the four cardinal directions at every node returns: NULL or the
\* same script
C32_PruningKeepsResult ==
    (pc = "returned" /\ PlainTerrain /\ StartOnTerrain) => result = ScriptFour

\* a path of three steps or more past a wall was returned on a budget so
\* small that a node was refused
C32_Witness ==
    /\ pc = "returned"
    /\ PlainTerrain
    /\ StartOnTerrain
    /\ map.walls # {}
    /\ args.maxNodes <= PruneBudget
    /\ refused > 0
    /\ result # NullScript
    /\ Steps(Returned) >= 3

\* for an object at elevation 0 the search returned a path and the search
\* that expands four directions returns NULL
C32_WitnessDiffers ==
    /\ pc = "returned"
    /\ PlainTerrain
    /\ objectEvent.currentElevation = 0
    /\ result # NullScript
    /\ ScriptFour = NullScript

(***************************************************************************)
(* C33.  Bounded suboptimality.                                            *)
(***************************************************************************)
\* the number of steps of a shortest way through free edges from a set of
\* tiles, n steps from the start, to the target; -1 when there is none
RECURSIVE ShortestFrom(_, _, _)
ShortestFrom(tiles, elevation, n) ==
    LET more == {<<t[1] + gDirectionToVectors(d).x, t[2] + gDirectionToVectors(d).y>> :
                    <<t, d>> \in {<<t, d>> \in tiles \X Cardinals : FreeEdge(t, d, elevation)}}
    IN IF TargetTile \in tiles THEN n
       ELSE IF more \subseteq tiles THEN -1
       ELSE ShortestFrom(tiles \cup more, elevation, n + 1)

Shortest == ShortestFrom({StartTile}, MapGridGetElevationAt(StartTile[1], StartTile[2]), 0)

\* 1.5 times a number of steps, rounded up
Stretched(steps) == (3 * steps + 1) \div 2

\* searches on the open grid, from four tiles of one corner to every tile,
\* walls included, with walls taken from four tiles that make the search go
\* round the long way, or from five tiles that make a pocket before the
\* target
DetourWalls ==
    {<<MAP_OFFSET + 1, MAP_OFFSET>>, <<MAP_OFFSET + 2, MAP_OFFSET + 2>>,
     <<MAP_OFFSET + 2, MAP_OFFSET + 3>>, <<MAP_OFFSET + 3, MAP_OFFSET + 1>>}

PocketWalls ==
    {<<MAP_OFFSET + 1, MAP_OFFSET + 1>>, <<MAP_OFFSET + 2, MAP_OFFSET + 2>>,
     <<MAP_OFFSET + 2, MAP_OFFSET + 3>>, <<MAP_OFFSET + 3, MAP_OFFSET>>,
     <<MAP_OFFSET + 3, MAP_OFFSET + 3>>}

DetourStarts == {<<MAP_OFFSET + x, MAP_OFFSET + y>> : x \in 3..4, y \in 3..4}

InitDetour ==
    \E walls \in (SUBSET DetourWalls) \cup (SUBSET PocketWalls) :
    \E start \in DetourStarts \ walls :
    \E target \in TilesOf(OpenW, OpenH) :
    \E maxNodes \in {0, BigBudget} :
        /\ InitWith(Terrain(OpenW, OpenH, walls, Plain, Plain, FALSE),
                    start, GroundElevation, DIR_NONE, target, DIR_NONE, 1, maxNodes)
        /\ Served

SpecDetour == InitDetour /\ [][Next]_vars

\* terrain at one elevation without ledges, an object without a forced
\* direction, and a search in which no allocation was refused
Unrefused ==
    /\ \A t \in DOMAIN map.elevation : \A u \in DOMAIN map.elevation :
           map.elevation[t] = map.elevation[u]
    /\ \A t \in DOMAIN map.behavior : map.behavior[t] \notin Cardinals
    /\ objectEvent.directionOverwrite = DIR_NONE
    /\ refused = 0

\* C33: on terrain at one elevation without ledges, without a forced
\* direction and with no allocation refused, a returned path has at most
\* 1.5 times, rounded up, the steps of a shortest path from the start to the
\* target
C33_BoundedSuboptimality ==
    (pc = "returned" /\ result # NullScript /\ Unrefused) =>
        /\ Shortest >= 0
        /\ Steps(Returned) >= Shortest
        /\ Steps(Returned) <= Stretched(Shortest)

\* a path was returned that is longer than a shortest one, which is itself
\* longer than the distance
C33_Witness ==
    /\ pc = "returned"
    /\ result # NullScript
    /\ Unrefused
    /\ Shortest > Distance(StartTile, TargetTile)
    /\ Steps(Returned) > Shortest

(***************************************************************************)
(* C34.  The facing action, for every value the script command can read.   *)
(***************************************************************************)
\* the largest value of the u8 the script command reads as facing
MaxByte == 255

FaceTargets == {<<MAP_OFFSET + GridW - 1, MAP_OFFSET + GridH - 1>>, <<MAP_OFFSET, MAP_OFFSET + 1>>}

\* u8 facingDirection = VarGet(ScriptReadByte(ctx)): every facing, from the
\* corner of a grid with at most one wall
InitFace ==
    \E facing \in 0..MaxByte :
    \E walls \in WallSets(1) :
    \E target \in FaceTargets :
    \E maxNodes \in {0, BigBudget} :
        /\ Corner \notin walls
        /\ InitWith(Terrain(GridW, GridH, walls, Plain, Plain, FALSE),
                    Corner, GroundElevation, DIR_NONE, target, facing % 256, 1, maxNodes)
        /\ Served

SpecFace == InitFace /\ [][Next]_vars

\* the actions of a returned script but the end marker are steps, but for
\* the one before the end marker, which is a step or one of the four face
\* actions, and is a face action when a facing was requested
FacingWellPlaced ==
    LET script == Returned
        n == Len(script)
    IN /\ n >= 1
       /\ script[n] = MOVEMENT_ACTION_GENERATED_END
       /\ \A i \in 1..(n - 2) : IsWalk(script[i]) \/ IsJump(script[i])
       /\ n >= 2 => (IsWalk(script[n - 1]) \/ IsJump(script[n - 1]) \/ script[n - 1] \in FaceActions)
       /\ args.facingDirection # DIR_NONE => (n >= 2 /\ script[n - 1] \in FaceActions)
       /\ args.facingDirection = DIR_NONE => \A i \in 1..n : script[i] \notin FaceActions

\* C34: for every value 0..255 of the requested facing the facing of the
\* context is none or a cardinal direction, and a returned script holds at
\* most one face action, one of the four, immediately before the end marker
C34_FacingAction ==
    /\ pc \in {"find", "loop", "returned"} => ctx.facingDirection \in {DIR_NONE} \cup Cardinals
    /\ (pc = "returned" /\ result # NullScript) => FacingWellPlaced

\* the same for the values 0..8 of the requested facing
C34_FacingUpToEight ==
    args.facingDirection <= DIR_NORTHEAST =>
        /\ pc \in {"find", "loop", "returned"} => ctx.facingDirection \in {DIR_NONE} \cup Cardinals
        /\ (pc = "returned" /\ result # NullScript) => FacingWellPlaced

\* a path of two steps or more was returned for a requested facing above
\* the cardinal directions and up to 8
C34_WitnessUpToEight ==
    /\ pc = "returned"
    /\ result # NullScript
    /\ args.facingDirection \in (DIR_EAST + 1)..DIR_NORTHEAST
    /\ Steps(Returned) >= 2

\* for every requested facing above 8 a returned script holds, before the
\* end marker, an action that is none of the four face actions
C34_AboveEight ==
    (pc = "returned" /\ result # NullScript /\ args.facingDirection > DIR_NORTHEAST) =>
        /\ ctx.facingDirection = args.facingDirection - DIR_EAST
        /\ Returned[Len(Returned) - 1] = FaceAction(args.facingDirection - DIR_EAST)
        /\ Returned[Len(Returned) - 1] \notin FaceActions

====
